---- MODULE Spec2Model ----
(***************************************************************************)
(* Verification model of the arithmetic core of dot-ring:                  *)
(*   - twisted Edwards point arithmetic in extended coordinates and the    *)
(*     2-scalar / 4-scalar windowed multiplication (curve_ops),            *)
(*   - the BLS12-381 scalar field in 4-limb Montgomery form                *)
(*     (bls12_381_scalar.c, scalar.pyx),                                   *)
(*   - modular square roots and the Elligator 2 map (field_ops),           *)
(*   - the in-place Cooley-Tukey NTT (gmpy2 and native variants).          *)
(*                                                                         *)
(* TLC computes with 32-bit integers, so the limb arithmetic is modelled   *)
(* at a reduced limb width (LimbBits bits per limb instead of 64, still 4  *)
(* limbs) with a modulus of the same shape as the BLS12-381 scalar         *)
(* modulus; every wrap-around of the C code is kept as % 2^LimbBits.       *)
(* Curve and field functions take their prime as an argument and are run   *)
(* on small primes.                                                        *)
(***************************************************************************)
EXTENDS Integers, Sequences, FiniteSets, TLC

VARIABLES
    pc,        \* position of the call in progress: "idle", "loop", "done"
    call,      \* the function called and its arguments
    table12,   \* scalar_mult_*: table (table12 in scalar_mult_4_cy)
    table34,   \* scalar_mult_4_cy: table34
    R,         \* scalar_mult_*: the accumulator R
    i,         \* scalar_mult_*: the window index of the main loop
    ops,       \* scalar_mult_*: the point operations the main loop has executed
    result,    \* the value returned
    val,       \* Scalar: the field val (four limbs) of the live Scalar object
    last,      \* Scalar: the operation that produced val, with its operands
    _prime_cache,  \* field_ops: the module's dict _prime_cache, a function on its keys
    coeffs,    \* ntt_in_place: the list coeffs, indexed from 0
    coeffs_c,  \* ntt_in_place (native): the C array coeffs_c, <<>> when not allocated
    ntt,       \* ntt_in_place: the loop variables stage and m
    linear,    \* poly_mul_linear: the loop index i and the reads made of each poly[i]
    heap,      \* malloc / posix_memalign / free: the buffers live, freed, and wrongly freed
    mem,       \* the pointer variables of the call in progress
    cells,     \* bls_scalar_mul_mont: the bls_scalar_t objects x, y, z that out, a and b point to
    cios,      \* bls_scalar_mul_mont: the array r, the round, and the values of the last round
    args, \* the Python list objects passed as arguments, by parameter name, as the call leaves them
    buffers, \* vect_*: the C buffers a_ptr, b_ptr, res_ptr (capacity, entries written, indices accessed) and scalar_b
    tonelli  \* sqrt_mod: the locals Q, S, z, M, c, t, R, temp and i of the Tonelli-Shanks loop

callVars == <<pc, call, result>>

curveVars == <<table12, table34, R, i, ops>>

scalarVars == <<val, last>>

fieldVars == <<_prime_cache>>

nttVars == <<coeffs, coeffs_c, ntt>>

polyVars == <<linear>>

memVars == <<heap, mem>>

ciosVars == <<cells, cios>>

listVars == <<args>>

bufVars == <<buffers>>

sqrtVars == <<tonelli>>

vars == <<callVars, curveVars, scalarVars, fieldVars, nttVars, polyVars, memVars, ciosVars, listVars, bufVars, sqrtVars>>

(***************************************************************************)
(* The state before anything is called.  Each specification below starts   *)
(* from it and runs the operations of one part of the library.             *)
(***************************************************************************)
NoTable == <<>>

NoCall ==
    /\ pc = "idle"
    /\ call = [fn |-> "none"]
    /\ result = <<>>

CurveIdle ==
    /\ table12 = NoTable
    /\ table34 = NoTable
    /\ R = <<0, 1, 1, 0>>
    /\ i = 0
    /\ ops = <<>>

\* A Scalar built with no argument: all four limbs 0.
ScalarIdle ==
    /\ val = <<0, 0, 0, 0>>
    /\ last = [op |-> "none"]

\* "_prime_cache = {}" when the module is loaded.
FieldIdle == _prime_cache = <<>>

\* No list is being transformed.
NttIdle ==
    /\ coeffs = <<>>
    /\ coeffs_c = <<>>
    /\ ntt = [stage |-> 0, m |-> 2]

\* No polynomial is being multiplied.
PolyIdle == linear = [i |-> 0, reads |-> <<>>]

\* The null pointer.
NULL == [kind |-> "null", id |-> 0, role |-> ""]

\* Nothing allocated, every pointer variable unset.
MemIdle ==
    /\ heap = [next |-> 1, live |-> {}, freed |-> {}, bad |-> {}]
    /\ mem = [a_ptr |-> NULL, b_ptr |-> NULL, res_ptr |-> NULL, coeffs_c |-> NULL,
              twiddles_c |-> NULL, use_heap |-> 0, m |-> 2]

\* No multiplication in progress.
CiosIdle ==
    /\ cells = [c \in {"x", "y", "z"} |-> <<0, 0, 0, 0>>]
    /\ cios = [round |-> 0, r |-> <<0, 0, 0, 0, 0>>, before |-> <<0, 0, 0, 0, 0>>,
               mac |-> <<0, 0, 0, 0, 0>>, m |-> 0]

\* No list arguments.
ListIdle == args = <<>>

\* A pointer variable of vect_* that has not been set.
NoBuffer == [kind |-> "none", cap |-> 0, data |-> <<>>, touched |-> {}]

\* No vector operation in progress.
BufIdle ==
    buffers = [a_ptr |-> NoBuffer, b_ptr |-> NoBuffer, res_ptr |-> NoBuffer,
               scalar_b |-> <<0, 0, 0, 0>>]

\* sqrt_mod is not running.
SqrtIdle ==
    tonelli = [Q |-> 0, S |-> 0, z |-> 0, M |-> 0, c |-> 0, t |-> 0, R |-> 0, temp |-> 0, i |-> 0]

\* What the curve functions leave alone.
notCurve == <<scalarVars, fieldVars, nttVars, polyVars, memVars, ciosVars, listVars, bufVars, sqrtVars>>

\* What the Scalar operations leave alone.
notScalar == <<callVars, curveVars, fieldVars, nttVars, polyVars, memVars, ciosVars, listVars, bufVars, sqrtVars>>

\* What the functions of field_ops leave alone.
notField == <<curveVars, scalarVars, nttVars, polyVars, memVars, ciosVars, listVars, bufVars, sqrtVars>>

\* What ntt_in_place leaves alone.
notNtt == <<curveVars, scalarVars, fieldVars, polyVars, memVars, ciosVars, listVars, bufVars, sqrtVars>>

\* What the polynomial functions leave alone.
notPoly == <<curveVars, scalarVars, fieldVars, nttVars, memVars, ciosVars, listVars, bufVars, sqrtVars>>

\* What the allocating functions leave alone, their buffers' contents included.
notMem == <<curveVars, scalarVars, fieldVars, nttVars, polyVars, ciosVars, listVars, bufVars, sqrtVars>>

\* What the VRF leaves alone.
notVrf == <<curveVars, scalarVars, fieldVars, nttVars, polyVars, memVars, ciosVars, listVars, bufVars, sqrtVars>>

\* What bls_scalar_mul_mont leaves alone.
notCios == <<curveVars, scalarVars, fieldVars, nttVars, polyVars, memVars, listVars, bufVars, sqrtVars>>

\* What the functions on Python lists leave alone.
notPolyArgs == <<curveVars, scalarVars, fieldVars, nttVars, memVars, ciosVars, bufVars, sqrtVars>>

notList == <<curveVars, scalarVars, fieldVars, nttVars, polyVars, memVars, ciosVars, bufVars, sqrtVars>>

\* What the vector operations leave alone.
notVectData == <<curveVars, scalarVars, fieldVars, nttVars, polyVars, memVars, ciosVars, sqrtVars>>

notBuf == <<curveVars, scalarVars, fieldVars, nttVars, polyVars, memVars, ciosVars, listVars, sqrtVars>>

\* What sqrt_mod leaves alone: all but its locals and _prime_cache.
notSqrt == <<curveVars, scalarVars, nttVars, polyVars, memVars, ciosVars, listVars, bufVars>>

(***************************************************************************)
(* Bounds of the model.                                                    *)
(***************************************************************************)
MaxK == 4       \* scalars k1, k2 of scalar_mult_windowed_cy range over 0..MaxK
MaxK4 == 4      \* scalars k1..k4 of scalar_mult_4_cy range over 0..MaxK4
MaxW == 2       \* window widths 1..MaxW
MaxZ == 2       \* projective representatives with Z in 1..MaxZ
MaxNeg == 3     \* Scalar: integer arguments range over -MaxNeg .. P + MaxOver
MaxOver == 4
MaxP == 18      \* field_ops: sqrt_mod and is_square run on the odd primes up to MaxP
MaxLogN == 3    \* ntt_in_place: lists of n = 2^k entries, k in 0..MaxLogN
MaxCoef == 2    \* ntt_in_place: coefficients of the input lists range over 0..MaxCoef
MaxMapP == 12   \* field_ops: map_to_curve_ell2_fast runs on the odd primes up to MaxMapP
MaxPolyLen == 3 \* poly_mul_linear: coefficient lists of 1..MaxPolyLen entries
MaxAllocs == 3  \* allocating functions: a further call starts while at most MaxAllocs buffers were allocated
MaxPureP == 7   \* field_ops: sequences of calls run on the odd primes up to MaxPureP

(***************************************************************************)
(* Python integer helpers.                                                 *)
(***************************************************************************)
RECURSIVE Pow2(_)
Pow2(n) == IF n = 0 THEN 1 ELSE 2 * Pow2(n - 1)

\* int.bit_length()
RECURSIVE bit_length(_)
bit_length(n) == IF n = 0 THEN 0 ELSE 1 + bit_length(n \div 2)

Max(a, b) == IF a >= b THEN a ELSE b

\* gmpy2.invert(x, p): the inverse of x modulo p; "ZeroDivisionError" when
\* x has none.
invert(x, p) ==
    IF \E r \in 1..(p - 1) : (r * x) % p = 1
    THEN CHOOSE r \in 1..(p - 1) : (r * x) % p = 1
    ELSE "ZeroDivisionError"

(***************************************************************************)
(* curve_ops: extended-coordinate twisted Edwards arithmetic.  A point is  *)
(* the tuple <<X, Y, Z, T>>.  _mpz and _int convert between Python int and *)
(* gmpy2.mpz and keep the integer value, so they do not appear.            *)
(***************************************************************************)
\* A variant of _te_add_mpz whose E is (X1+Y1)*(X2+Y2) - A, without "- B".
te_add_mpz_noB(P1, P2, a_coeff, d_coeff, p) ==
    LET x1 == P1[1]  y1 == P1[2]  z1 == P1[3]  t1 == P1[4]
        x2 == P2[1]  y2 == P2[2]  z2 == P2[3]  t2 == P2[4]
        A == (x1 * x2) % p
        B == (y1 * y2) % p
        C == (((d_coeff * t1) % p) * t2) % p
        D == (z1 * z2) % p
        E == (((x1 + y1) * (x2 + y2)) - A) % p
        F == (D - C) % p
        G == (D + C) % p
        H == (B - (a_coeff * A)) % p
    IN  <<(E * F) % p, (G * H) % p, (F * G) % p, (E * H) % p>>

_te_add_mpz(P1, P2, a_coeff, d_coeff, p) ==
    LET x1 == P1[1]  y1 == P1[2]  z1 == P1[3]  t1 == P1[4]
        x2 == P2[1]  y2 == P2[2]  z2 == P2[3]  t2 == P2[4]
        A == (x1 * x2) % p
        B == (y1 * y2) % p
        C == (((d_coeff * t1) % p) * t2) % p
        D == (z1 * z2) % p
        E == (((x1 + y1) * (x2 + y2)) - A - B) % p
        F == (D - C) % p
        G == (D + C) % p
        H == (B - (a_coeff * A)) % p
    IN  <<(E * F) % p, (G * H) % p, (F * G) % p, (E * H) % p>>

\* A variant of the doubling with C = Z1^2.
te_double_mpz_cZ2(P, a_coeff, p) ==
    LET x == P[1]  y == P[2]  z == P[3]
        A == (x * x) % p
        B == (y * y) % p
        C == (z * z) % p
        D == (a_coeff * A) % p
        x_plus_y == (x + y) % p
        E == ((x_plus_y * x_plus_y) - A - B) % p
        G == (D + B) % p
        F == (G - C) % p
        H == (D - B) % p
    IN  <<(E * F) % p, (G * H) % p, (F * G) % p, (E * H) % p>>

\* A variant of the doubling with T3 = E * G.
te_double_mpz_tEG(P, a_coeff, p) ==
    LET x == P[1]  y == P[2]  z == P[3]
        A == (x * x) % p
        B == (y * y) % p
        z_sq == (z * z) % p
        C == (z_sq + z_sq) % p
        D == (a_coeff * A) % p
        x_plus_y == (x + y) % p
        E == ((x_plus_y * x_plus_y) - A - B) % p
        G == (D + B) % p
        F == (G - C) % p
        H == (D - B) % p
    IN  <<(E * F) % p, (G * H) % p, (F * G) % p, (E * G) % p>>

_te_double_mpz(P, a_coeff, p) ==
    LET x == P[1]  y == P[2]  z == P[3]
        A == (x * x) % p
        B == (y * y) % p
        z_sq == (z * z) % p
        C == (z_sq + z_sq) % p
        D == (a_coeff * A) % p
        x_plus_y == (x + y) % p
        E == ((x_plus_y * x_plus_y) - A - B) % p
        G == (D + B) % p
        F == (G - C) % p
        H == (D - B) % p
    IN  <<(E * F) % p, (G * H) % p, (F * G) % p, (E * H) % p>>

te_double_cy(P, a_coeff, p) == _te_double_mpz(P, a_coeff, p)

te_add_cy(P1, P2, a_coeff, d_coeff, p) == _te_add_mpz(P1, P2, a_coeff, d_coeff, p)

projective_to_affine_cy(x, y, z, p) ==
    IF z = 0 THEN <<0, 1>>
    ELSE LET inv_z == invert(z, p)
         IN  <<(x * inv_z) % p, (y * inv_z) % p>>

identity == <<0, 1, 1, 0>>

\* The loop "for i in range(1, table_size): mults.append(curr); curr = curr + base"
\* entered with mults = [identity]; the list is indexed from 0.
RECURSIVE MultsLoop(_, _, _, _, _, _, _, _)
MultsLoop(mults, curr, base, n, table_size, am, dm, pm) ==
    IF n >= table_size THEN mults
    ELSE MultsLoop([m \in 0..n |-> IF m = n THEN curr ELSE mults[m]],
                   _te_add_mpz(curr, base, am, dm, pm),
                   base, n + 1, table_size, am, dm, pm)

Mults(base, table_size, am, dm, pm) ==
    MultsLoop([m \in 0..0 |-> identity], base, base, 1, table_size, am, dm, pm)

\* A variant of the table with the inner entries transposed.
BuildTable_transposed(p1_base, p2_base, wd, am, dm, pm) ==
    LET table_size == Pow2(wd)
        p1_mults == Mults(p1_base, table_size, am, dm, pm)
        p2_mults == Mults(p2_base, table_size, am, dm, pm)
    IN  [ti \in 0..(table_size - 1) |->
          [tj \in 0..(table_size - 1) |->
            IF ti = 0 THEN p2_mults[tj]
            ELSE IF tj = 0 THEN p1_mults[ti]
            ELSE _te_add_mpz(p1_mults[tj], p2_mults[ti], am, dm, pm)]]

\* The full table: table[i][j] for 0 <= i, j < table_size.
BuildTable(p1_base, p2_base, wd, am, dm, pm) ==
    LET table_size == Pow2(wd)
        p1_mults == Mults(p1_base, table_size, am, dm, pm)
        p2_mults == Mults(p2_base, table_size, am, dm, pm)
    IN  [ti \in 0..(table_size - 1) |->
          [tj \in 0..(table_size - 1) |->
            IF ti = 0 THEN p2_mults[tj]
            ELSE IF tj = 0 THEN p1_mults[ti]
            ELSE _te_add_mpz(p1_mults[ti], p2_mults[tj], am, dm, pm)]]

\* num_windows, from the bit length of the largest scalar.
NumWindows(max_bits0, wd) ==
    LET max_bits == IF max_bits0 = 0 THEN 1 ELSE max_bits0
    IN  (max_bits + wd - 1) \div wd

\* (k >> (i * w)) & mask
Window(kk, ii, wd) == (kk \div Pow2(ii * wd)) % Pow2(wd)

\* "for j in range(w): R = double(R)"
RECURSIVE DoubleTimes(_, _, _, _)
DoubleTimes(acc, n, am, pm) ==
    IF n = 0 THEN acc ELSE DoubleTimes(_te_double_mpz(acc, am, pm), n - 1, am, pm)

\* A variant of the loop body that skips the doublings.
WindowBody2_nodouble(acc, ii, k1, k2, tbl, wd, am, dm, pm) ==
    LET k1_win == Window(k1, ii, wd)
        k2_win == Window(k2, ii, wd)
    IN  IF k1_win # 0 \/ k2_win # 0
        THEN _te_add_mpz(acc, tbl[k1_win][k2_win], am, dm, pm)
        ELSE acc

\* One iteration of the main loop of scalar_mult_windowed_cy.
WindowBody2(acc, ii, k1, k2, tbl, wd, am, dm, pm) ==
    LET Rd == DoubleTimes(acc, wd, am, pm)
        k1_win == Window(k1, ii, wd)
        k2_win == Window(k2, ii, wd)
    IN  IF k1_win # 0 \/ k2_win # 0
        THEN _te_add_mpz(Rd, tbl[k1_win][k2_win], am, dm, pm)
        ELSE Rd

\* A variant of the 4-scalar loop body that looks table34 up with k3 twice.
WindowBody4_k3twice(acc, ii, ks, t12, t34, wd, am, dm, pm) ==
    LET Rd == DoubleTimes(acc, wd, am, pm)
        k1_win == Window(ks[1], ii, wd)
        k2_win == Window(ks[2], ii, wd)
        k3_win == Window(ks[3], ii, wd)
        R12 == IF k1_win # 0 \/ k2_win # 0
               THEN _te_add_mpz(Rd, t12[k1_win][k2_win], am, dm, pm)
               ELSE Rd
    IN  IF k3_win # 0
        THEN _te_add_mpz(R12, t34[k3_win][k3_win], am, dm, pm)
        ELSE R12

\* One iteration of the main loop of scalar_mult_4_cy.
WindowBody4(acc, ii, ks, t12, t34, wd, am, dm, pm) ==
    LET Rd == DoubleTimes(acc, wd, am, pm)
        k1_win == Window(ks[1], ii, wd)
        k2_win == Window(ks[2], ii, wd)
        k3_win == Window(ks[3], ii, wd)
        k4_win == Window(ks[4], ii, wd)
        R12 == IF k1_win # 0 \/ k2_win # 0
               THEN _te_add_mpz(Rd, t12[k1_win][k2_win], am, dm, pm)
               ELSE Rd
    IN  IF k3_win # 0 \/ k4_win # 0
        THEN _te_add_mpz(R12, t34[k3_win][k4_win], am, dm, pm)
        ELSE R12

\* The calls of _te_double_mpz and _te_add_mpz one iteration of the main loop
\* of scalar_mult_windowed_cy makes, in order.
WindowOps2(ii, k1, k2, wd) ==
    [j \in 1..wd |-> "_te_double_mpz"]
      \o (IF Window(k1, ii, wd) # 0 \/ Window(k2, ii, wd) # 0
          THEN <<"_te_add_mpz">> ELSE <<>>)

\* The same for scalar_mult_4_cy.
WindowOps4(ii, ks, wd) ==
    [j \in 1..wd |-> "_te_double_mpz"]
      \o (IF Window(ks[1], ii, wd) # 0 \/ Window(ks[2], ii, wd) # 0
          THEN <<"_te_add_mpz">> ELSE <<>>)
      \o (IF Window(ks[3], ii, wd) # 0 \/ Window(ks[4], ii, wd) # 0
          THEN <<"_te_add_mpz">> ELSE <<>>)

\* The whole of scalar_mult_windowed_cy as a function of its arguments.
RECURSIVE MainLoop2(_, _, _, _, _, _, _, _, _)
MainLoop2(acc, ii, k1, k2, tbl, wd, am, dm, pm) ==
    IF ii < 0 THEN acc
    ELSE MainLoop2(WindowBody2(acc, ii, k1, k2, tbl, wd, am, dm, pm),
                   ii - 1, k1, k2, tbl, wd, am, dm, pm)

scalar_mult_windowed_cy(k1, k2, P1, P2, a_coeff, d_coeff, p, wd) ==
    LET tbl == BuildTable(P1, P2, wd, a_coeff, d_coeff, p)
        num_windows == NumWindows(Max(bit_length(k1), bit_length(k2)), wd)
    IN  MainLoop2(identity, num_windows - 1, k1, k2, tbl, wd, a_coeff, d_coeff, p)

RECURSIVE MainLoop4(_, _, _, _, _, _, _, _, _)
MainLoop4(acc, ii, ks, t12, t34, wd, am, dm, pm) ==
    IF ii < 0 THEN acc
    ELSE MainLoop4(WindowBody4(acc, ii, ks, t12, t34, wd, am, dm, pm),
                   ii - 1, ks, t12, t34, wd, am, dm, pm)

MaxBits4(ks) ==
    Max(Max(bit_length(ks[1]), bit_length(ks[2])),
        Max(bit_length(ks[3]), bit_length(ks[4])))

\* The whole of scalar_mult_4_cy; ks = <<k1, k2, k3, k4>>, Ps = <<P1, P2, P3, P4>>.
scalar_mult_4_cy(ks, Ps, a_coeff, d_coeff, p, wd) ==
    LET t12 == BuildTable(Ps[1], Ps[2], wd, a_coeff, d_coeff, p)
        t34 == BuildTable(Ps[3], Ps[4], wd, a_coeff, d_coeff, p)
        num_windows == NumWindows(MaxBits4(ks), wd)
    IN  MainLoop4(identity, num_windows - 1, ks, t12, t34, wd, a_coeff, d_coeff, p)

(***************************************************************************)
(* Inputs of the curve functions.  The functions take the curve constants  *)
(* a, d and the prime p as arguments; they are run on curves over F_13:    *)
(* two with a complete addition law (a a non-zero square, d a non-square)  *)
(* and one without (d = 3 is a square mod 13).                             *)
(***************************************************************************)
Curves ==
    { [a |-> 1,  d |-> 2, p |-> 13],
      [a |-> 12, d |-> 7, p |-> 13],
      [a |-> 1,  d |-> 3, p |-> 13] }

IsSquareMod(x, p) == \E r \in 0..(p - 1) : (r * r) % p = x % p

\* The addition law of a*x^2 + y^2 = 1 + d*x^2*y^2 is complete.
Complete(cv) ==
    /\ cv.a % cv.p # 0
    /\ cv.d % cv.p # 0
    /\ IsSquareMod(cv.a, cv.p)
    /\ ~IsSquareMod(cv.d, cv.p)

OnCurveAffine(x, y, cv) ==
    (cv.a * x * x + y * y) % cv.p = (1 + cv.d * x * x * y * y) % cv.p

AffinePoints(cv) ==
    { pt \in (0..(cv.p - 1)) \X (0..(cv.p - 1)) : OnCurveAffine(pt[1], pt[2], cv) }

\* The representative of the affine point pt with third coordinate z.
Ext(pt, z, p) == <<(pt[1] * z) % p, (pt[2] * z) % p, z % p, (pt[1] * pt[2] * z) % p>>

\* Points on the curve, in extended coordinates.
CurvePoints(cv) == { Ext(pt, z, cv.p) : pt \in AffinePoints(cv), z \in 1..MaxZ }

\* Points on the curve with third coordinate z.
CurvePointsZ(cv, z) == { Ext(pt, z, cv.p) : pt \in AffinePoints(cv) }

\* Every <<X, Y, Z, T>> with Z # 0 and T*Z = X*Y, on the curve or not.
ExtendedPoints(p) ==
    { Ext(<<x, y>>, z, p) : x \in 0..(p - 1), y \in 0..(p - 1), z \in 1..(p - 1) }

\* The two points the 4-scalar calls take P1..P4 from: the least and the
\* greatest affine point with non-zero coordinates, the second with Z = MaxZ.
FourPoints(cv) ==
    LET pts == { pt \in AffinePoints(cv) : pt[1] # 0 /\ pt[2] # 0 }
        g1 == CHOOSE pt \in pts : \A q \in pts : pt[1] < q[1] \/ (pt[1] = q[1] /\ pt[2] <= q[2])
        g2 == CHOOSE pt \in pts : \A q \in pts : pt[1] > q[1] \/ (pt[1] = q[1] /\ pt[2] >= q[2])
    IN  <<Ext(g1, 1, cv.p), Ext(g2, MaxZ, cv.p)>>

(***************************************************************************)
(* The calls of the curve functions as a state machine.                    *)
(***************************************************************************)
InitCurve == NoCall /\ CurveIdle /\ ScalarIdle /\ FieldIdle /\ NttIdle /\ PolyIdle /\ MemIdle /\ CiosIdle /\ ListIdle /\ BufIdle /\ SqrtIdle

\* The argument pairs of te_add_cy: every extended point with the identity on
\* either side and with itself, and every pair of points of the curve.
AddPairs(cv) ==
    UNION { { <<P, identity>>, <<identity, P>>, <<P, P>> } :
              P \in ExtendedPoints(cv.p) \cup {identity} }
      \cup (CurvePoints(cv) \X CurvePoints(cv))

CallTeAdd ==
    /\ pc = "idle"
    /\ \E cv \in Curves :
         \E Ps \in AddPairs(cv) :
           /\ call' = [fn |-> "te_add_cy", P1 |-> Ps[1], P2 |-> Ps[2], curve |-> cv]
           /\ result' = te_add_cy(Ps[1], Ps[2], cv.a, cv.d, cv.p)
    /\ pc' = "done"
    /\ UNCHANGED curveVars
    /\ UNCHANGED notCurve

CallTeDouble ==
    /\ pc = "idle"
    /\ \E cv \in Curves :
         \E P1 \in ExtendedPoints(cv.p) \cup {identity} :
           /\ call' = [fn |-> "te_double_cy", P1 |-> P1, curve |-> cv]
           /\ result' = te_double_cy(P1, cv.a, cv.p)
    /\ pc' = "done"
    /\ UNCHANGED curveVars
    /\ UNCHANGED notCurve

\* scalar_mult_windowed_cy up to the main loop: the table and the window count;
\* the points P1 and P2 are taken from sets given for each curve.
CallWindowedWith(Points1(_), Points2(_)) ==
    /\ pc = "idle"
    /\ \E cv \in Curves :
         \E P1 \in Points1(cv), P2 \in Points2(cv) :
           \E wd \in 1..MaxW :
             \E table \in {BuildTable(P1, P2, wd, cv.a, cv.d, cv.p)} :
               \E k1 \in 0..MaxK, k2 \in 0..MaxK :
                 /\ call' = [fn |-> "scalar_mult_windowed_cy", k |-> <<k1, k2>>,
                             P |-> <<P1, P2>>, curve |-> cv, w |-> wd]
                 /\ table12' = table
                 /\ i' = NumWindows(Max(bit_length(k1), bit_length(k2)), wd) - 1
    /\ table34' = NoTable
    /\ R' = identity
    /\ ops' = <<>>
    /\ pc' = "loop"
    /\ UNCHANGED result
    /\ UNCHANGED notCurve

CurvePointsMaxZ(cv) == CurvePointsZ(cv, MaxZ)

CallWindowed == CallWindowedWith(CurvePoints, CurvePointsMaxZ)

\* scalar_mult_4_cy up to the main loop, with the scalars taken from a set and
\* the points from the pairs given for each curve.
CallFourWith(PointPairs(_), scalars) ==
    /\ pc = "idle"
    /\ \E cv \in Curves :
         \E FP \in PointPairs(cv), n1 \in 1..2, n2 \in 1..2 :
           \E wd \in 1..MaxW :
             \E t12 \in {BuildTable(FP[n1], FP[n2], wd, cv.a, cv.d, cv.p)},
                t34 \in {BuildTable(FP[2], FP[1], wd, cv.a, cv.d, cv.p)} :
               \E k1 \in scalars, k2 \in scalars, k3 \in scalars, k4 \in scalars :
                 /\ call' = [fn |-> "scalar_mult_4_cy", k |-> <<k1, k2, k3, k4>>,
                             P |-> <<FP[n1], FP[n2], FP[2], FP[1]>>, curve |-> cv, w |-> wd]
                 /\ table12' = t12
                 /\ table34' = t34
                 /\ i' = NumWindows(MaxBits4(<<k1, k2, k3, k4>>), wd) - 1
    /\ R' = identity
    /\ ops' = <<>>
    /\ pc' = "loop"
    /\ UNCHANGED result
    /\ UNCHANGED notCurve

FourPointPairs(cv) == {FourPoints(cv)}

CallFourOn(scalars) == CallFourWith(FourPointPairs, scalars)

CallFour == CallFourOn(0..MaxK4)

\* One iteration of "for i in range(num_windows - 1, -1, -1)" of scalar_mult_windowed_cy.
WindowIter2 ==
    /\ pc = "loop"
    /\ call.fn = "scalar_mult_windowed_cy"
    /\ i >= 0
    /\ R' = WindowBody2(R, i, call.k[1], call.k[2], table12, call.w,
                        call.curve.a, call.curve.d, call.curve.p)
    /\ ops' = ops \o WindowOps2(i, call.k[1], call.k[2], call.w)
    /\ i' = i - 1
    /\ UNCHANGED <<pc, call, table12, table34, result>>
    /\ UNCHANGED notCurve

\* One iteration of the main loop of scalar_mult_4_cy.
WindowIter4 ==
    /\ pc = "loop"
    /\ call.fn = "scalar_mult_4_cy"
    /\ i >= 0
    /\ R' = WindowBody4(R, i, call.k, table12, table34, call.w,
                        call.curve.a, call.curve.d, call.curve.p)
    /\ ops' = ops \o WindowOps4(i, call.k, call.w)
    /\ i' = i - 1
    /\ UNCHANGED <<pc, call, table12, table34, result>>
    /\ UNCHANGED notCurve

\* The loop is over: "return (_int(R[0]), _int(R[1]), _int(R[2]), _int(R[3]))".
ReturnR ==
    /\ pc = "loop"
    /\ i < 0
    /\ result' = R
    /\ pc' = "done"
    /\ UNCHANGED <<call, table12, table34, R, i, ops>>
    /\ UNCHANGED notCurve

NextCurve ==
    \/ CallTeAdd
    \/ CallTeDouble
    \/ CallWindowed
    \/ CallFour
    \/ WindowIter2
    \/ WindowIter4
    \/ ReturnR

SpecCurve == InitCurve /\ [][NextCurve]_vars

(***************************************************************************)
(* The group law in affine coordinates, against which the results of the   *)
(* extended-coordinate functions are compared:                             *)
(*   (x1,y1) + (x2,y2) = ((x1*y2 + y1*x2) / (1 + d*x1*x2*y1*y2),           *)
(*                        (y1*y2 - a*x1*x2) / (1 - d*x1*x2*y1*y2)).        *)
(***************************************************************************)
AffAdd(A1, A2, cv) ==
    LET q == cv.p
        m == (cv.d * A1[1] * A2[1] * A1[2] * A2[2]) % q
    IN  <<((A1[1] * A2[2] + A1[2] * A2[1]) * invert((1 + m) % q, q)) % q,
          ((A1[2] * A2[2] + (q - (cv.a % q)) * A1[1] * A2[1]) * invert((1 + q - m) % q, q)) % q>>

\* n * A, by n successive additions to the neutral element (0, 1).
RECURSIVE AffMul(_, _, _)
AffMul(n, A, cv) == IF n = 0 THEN <<0, 1>> ELSE AffAdd(AffMul(n - 1, A, cv), A, cv)

\* The affine point a representative with Z # 0 stands for.
ToAffine(P, q) == <<(P[1] * invert(P[3], q)) % q, (P[2] * invert(P[3], q)) % q>>

\* The extended point P stands for the affine point A: Z # 0, X = x*Z, Y = y*Z.
Represents(P, A, q) ==
    /\ P[3] % q # 0
    /\ P[1] % q = (A[1] * P[3]) % q
    /\ P[2] % q = (A[2] * P[3]) % q

\* Two extended points are projectively equal.
ProjEqual(P, Q, q) ==
    /\ P[3] % q # 0
    /\ Q[3] % q # 0
    /\ (P[1] * Q[3]) % q = (Q[1] * P[3]) % q
    /\ (P[2] * Q[3]) % q = (Q[2] * P[3]) % q

Returned(fn) == pc = "done" /\ call.fn = fn

\* C1: on a curve with a complete addition law, scalar_mult_windowed_cy(k1, k2,
\* P1, P2) returns a point projectively equal to k1*P1 + k2*P2, for every window
\* width; for k1 = k2 = 0 the result is projectively the identity, affine (0, 1).
C1_WindowedIsLinearCombination ==
    (Returned("scalar_mult_windowed_cy") /\ Complete(call.curve)) =>
        LET cv == call.curve
            A1 == ToAffine(call.P[1], cv.p)
            A2 == ToAffine(call.P[2], cv.p)
            expected == AffAdd(AffMul(call.k[1], A1, cv), AffMul(call.k[2], A2, cv), cv)
        IN  /\ Represents(result, expected, cv.p)
            /\ (call.k = <<0, 0>>) =>
                  /\ Represents(result, <<0, 1>>, cv.p)
                  /\ projective_to_affine_cy(result[1], result[2], result[3], cv.p) = <<0, 1>>

\* C1 witness: a returned call on a complete curve with two windows of width 2,
\* both scalars non-zero, two different points and a result other than the identity.
C1_Witness ==
    /\ Returned("scalar_mult_windowed_cy")
    /\ Complete(call.curve)
    /\ call.w = 2
    /\ call.k[1] >= 4
    /\ call.k[2] >= 1
    /\ ~ProjEqual(call.P[1], call.P[2], call.curve.p)
    /\ call.P[1][3] # 1
    /\ ~Represents(result, <<0, 1>>, call.curve.p)

\* C8: on a curve with a complete addition law, scalar_mult_4_cy returns a point
\* projectively equal to k1*P1 + k2*P2 + k3*P3 + k4*P4; with k3 = k4 = 0 it has the
\* same affine point as scalar_mult_windowed_cy(k1, k2, P1, P2).
C8_FourIsLinearCombination ==
    (Returned("scalar_mult_4_cy") /\ Complete(call.curve)) =>
        LET cv == call.curve
            term(n) == AffMul(call.k[n], ToAffine(call.P[n], cv.p), cv)
            expected == AffAdd(AffAdd(term(1), term(2), cv), AffAdd(term(3), term(4), cv), cv)
            two == scalar_mult_windowed_cy(call.k[1], call.k[2], call.P[1], call.P[2],
                                           cv.a, cv.d, cv.p, call.w)
        IN  /\ Represents(result, expected, cv.p)
            /\ (call.k[3] = 0 /\ call.k[4] = 0) =>
                  projective_to_affine_cy(result[1], result[2], result[3], cv.p)
                    = projective_to_affine_cy(two[1], two[2], two[3], cv.p)

\* C8 witness: a returned 4-scalar call on a complete curve, all four scalars
\* non-zero, more than one window, P3 and P4 different.
C8_Witness ==
    /\ Returned("scalar_mult_4_cy")
    /\ Complete(call.curve)
    /\ \A n \in 1..4 : call.k[n] # 0
    /\ call.k[3] >= 4
    /\ call.w = 2
    /\ ~ProjEqual(call.P[3], call.P[4], call.curve.p)
    /\ ~Represents(result, <<0, 1>>, call.curve.p)

\* C8 witness of the second half: k3 = k4 = 0 with k1, k2 non-zero.
C8_WitnessTwoScalars ==
    /\ Returned("scalar_mult_4_cy")
    /\ Complete(call.curve)
    /\ call.k[3] = 0 /\ call.k[4] = 0
    /\ call.k[1] >= 2 /\ call.k[2] >= 1

\* C10: (0,1,1,0) is neutral for te_add_cy on either side, for every point
\* (X,Y,Z,T) with Z # 0 and T*Z = X*Y: the sum is projectively equal to the point
\* and has the same affine x = X/Z, y = Y/Z; te_double_cy((0,1,1,0)) is
\* projectively the identity.
C10_IdentityIsNeutral ==
    /\ (Returned("te_add_cy") /\ (call.P1 = identity \/ call.P2 = identity)) =>
          LET other == IF call.P2 = identity THEN call.P1 ELSE call.P2
              q == call.curve.p
          IN  /\ ProjEqual(result, other, q)
              /\ projective_to_affine_cy(result[1], result[2], result[3], q)
                    = ToAffine(other, q)
    /\ (Returned("te_double_cy") /\ call.P1 = identity) =>
          /\ ProjEqual(result, identity, call.curve.p)
          /\ projective_to_affine_cy(result[1], result[2], result[3], call.curve.p) = <<0, 1>>

\* C10 witness: the identity added on the left to a point that is not on the
\* curve, has Z # 1 and is not the identity.
C10_Witness ==
    /\ Returned("te_add_cy")
    /\ call.P1 = identity
    /\ call.P2[3] > 1
    /\ call.P2[1] # 0
    /\ ~OnCurveAffine(ToAffine(call.P2, call.curve.p)[1], ToAffine(call.P2, call.curve.p)[2],
                      call.curve)
    /\ result # call.P2

(***************************************************************************)
(* bls12_381_scalar.c: the scalar field in Montgomery form.  A field       *)
(* element is four limbs <<val[0], val[1], val[2], val[3]>>, least         *)
(* significant first.  The source has 64-bit limbs and 128-bit             *)
(* intermediates; the model has LimbBits-bit limbs and 2*LimbBits-bit      *)
(* intermediates, and the modulus 113 = 0x71 = 01 11 00 01 (binary), which *)
(* like 0x73ED...0001 is a prime below half of R = 2^(4*LimbBits) whose    *)
(* lowest limb is 1.  R2 and INV are the same functions of the modulus as  *)
(* in the source: R^2 mod P and -P^-1 mod 2^LimbBits.                      *)
(***************************************************************************)
LimbBits == 2

LimbBase == Pow2(LimbBits)

\* Truncation to uint64_t and to __uint128_t.
U64(x) == x % LimbBase

U128(x) == x % (LimbBase * LimbBase)

BLS_SCALAR_MODULUS == <<1, 0, 3, 1>>

\* A wrong R^2 constant: the highest limb is off by one.
BLS_SCALAR_R2_wrong == <<1, 3, 2, 0>>

BLS_SCALAR_R2 == <<1, 3, 2, 1>>

BLS_SCALAR_INV == 3

\* The integer four limbs encode.
LimbsValue(x) ==
    x[1] + LimbBase * x[2] + LimbBase * LimbBase * x[3]
         + LimbBase * LimbBase * LimbBase * x[4]

\* The modulus P and R = 2^256 (here 2^(4*LimbBits)) as integers.
Modulus == LimbsValue(BLS_SCALAR_MODULUS)

MontR == LimbBase * LimbBase * LimbBase * LimbBase

\* adc: res = (uint128_t)a + b + *carry; *carry = res >> 64; return (uint64_t)res
AdcOf(res) == [out |-> U64(res), carry |-> res \div LimbBase]

adc(a, b, carry) == AdcOf(U128(a + b + carry))

\* sbb: res = (uint128_t)a - b - *borrow; *borrow = res >> 127, the top bit of
\* the 128-bit difference; return (uint64_t)res
SbbOf(res) == [out |-> U64(res), borrow |-> res \div ((LimbBase * LimbBase) \div 2)]

sbb(a, b, borrow) == SbbOf(U128(a - b - borrow))

\* a - b over four limbs, limb by limb with the borrow passed on: the limbs of
\* the difference and the final borrow.
Sub4End(d0, d1, d2, d3) == [out |-> <<d0.out, d1.out, d2.out, d3.out>>, borrow |-> d3.borrow]

Sub4From3(a, b, d0, d1, d2) == Sub4End(d0, d1, d2, sbb(a[4], b[4], d2.borrow))

Sub4From2(a, b, d0, d1) == Sub4From3(a, b, d0, d1, sbb(a[3], b[3], d1.borrow))

Sub4From1(a, b, d0) == Sub4From2(a, b, d0, sbb(a[2], b[2], d0.borrow))

Sub4(a, b) == Sub4From1(a, b, sbb(a[1], b[1], 0))

\* a + b over four limbs, limb by limb with the carry passed on: the limbs of
\* the sum and the final carry.
Add4End(s0, s1, s2, s3) == [out |-> <<s0.out, s1.out, s2.out, s3.out>>, carry |-> s3.carry]

Add4From3(a, b, s0, s1, s2) == Add4End(s0, s1, s2, adc(a[4], b[4], s2.carry))

Add4From2(a, b, s0, s1) == Add4From3(a, b, s0, s1, adc(a[3], b[3], s1.carry))

Add4From1(a, b, s0) == Add4From2(a, b, s0, adc(a[2], b[2], s0.carry))

Add4(a, b) == Add4From1(a, b, adc(a[1], b[1], 0))

\* A variant of bls_scalar_add without the conditional subtraction of P.
bls_scalar_add_noreduce(a, b) == Add4(a, b).out

\* use_sub = (carry != 0) || (borrow == 0); out = use_sub ? tmp : res
AddSelect(res, tmp) == IF res.carry # 0 \/ tmp.borrow = 0 THEN tmp.out ELSE res.out

AddReduce(res) == AddSelect(res, Sub4(res.out, BLS_SCALAR_MODULUS))

bls_scalar_add(a, b) == AddReduce(Add4(a, b))

\* out = borrow ? res + P : res
SubSelect(res, tmp) == IF res.borrow # 0 THEN tmp.out ELSE res.out

SubReduce(res) == SubSelect(res, Add4(res.out, BLS_SCALAR_MODULUS))

bls_scalar_sub(a, b) == SubReduce(Sub4(a, b))

\* An array the C code has stored before it goes on: Len makes TLC evaluate the
\* array at this point, and not inside the steps that read it later.
Stored(x) == Len(x) > 0

\* prod = (uint128_t)x * y + z + u
Mac(x, y, z, u) == U128(x * y + z + u)

\* The first loop of a round, unrolled as in the source.  Step j:
\* prod = a[j] * bi + r[j] + u; r[j] = (uint64_t)prod; u = prod >> 64, with
\* u = 0 at j = 0.  Then prod = r[4] + u; r[4] = (uint64_t)prod; round 0 sets
\* r[4] = u, which is the same with the r[4] = 0 the array starts from.
MacEnd(r, p0, p1, p2, p3) ==
    <<U64(p0), U64(p1), U64(p2), U64(p3), U64(U128(r[5] + p3 \div LimbBase))>>

MacFrom3(r, a, bi, p0, p1, p2) ==
    MacEnd(r, p0, p1, p2, Mac(a[4], bi, r[4], p2 \div LimbBase))

MacFrom2(r, a, bi, p0, p1) ==
    MacFrom3(r, a, bi, p0, p1, Mac(a[3], bi, r[3], p1 \div LimbBase))

MacFrom1(r, a, bi, p0) ==
    MacFrom2(r, a, bi, p0, Mac(a[2], bi, r[2], p0 \div LimbBase))

MacRow(r, a, bi) == MacFrom1(r, a, bi, Mac(a[1], bi, r[1], 0))

\* The second loop of a round, unrolled as in the source.  m = r[0] * INV;
\* prod = m * P[0] + r[0]; carry = prod >> 64; then at the steps j = 1..3
\* prod = m * P[j] + r[j] + carry; r[j-1] = (uint64_t)prod; carry = prod >> 64;
\* and at the end prod = r[4] + carry; r[3] = (uint64_t)prod; r[4] = prod >> 64.
RedEnd(q1, q2, q3, q4) == <<U64(q1), U64(q2), U64(q3), U64(q4), q4 \div LimbBase>>

RedLast(r, q1, q2, q3) == RedEnd(q1, q2, q3, U128(r[5] + q3 \div LimbBase))

RedFrom3(r, m, q1, q2) ==
    RedLast(r, q1, q2, Mac(m, BLS_SCALAR_MODULUS[4], r[4], q2 \div LimbBase))

RedFrom2(r, m, q1) ==
    RedFrom3(r, m, q1, Mac(m, BLS_SCALAR_MODULUS[3], r[3], q1 \div LimbBase))

RedFrom1(r, m, q0) ==
    RedFrom2(r, m, Mac(m, BLS_SCALAR_MODULUS[2], r[2], q0 \div LimbBase))

RedRow(r, m) == RedFrom1(r, m, Mac(m, BLS_SCALAR_MODULUS[1], r[1], 0))

\* A variant of the reduction that takes m = r[0].
Reduce_mIsR0(r) == RedRow(r, r[1])

\* m = r[0] * BLS_SCALAR_INV
Reduce(r) == RedRow(r, U64(r[1] * BLS_SCALAR_INV))

\* One round of the unrolled CIOS loop of bls_scalar_mul_mont: r (five limbs)
\* becomes (r + a*bi + m*P) / 2^64.
CiosRound(r, a, bi) == Reduce(MacRow(r, a, bi))

\* The rounds i..3.
RECURSIVE CiosRounds(_, _, _, _)
CiosRounds(r, a, b, n) ==
    IF n > 4 \/ ~Stored(r) THEN r ELSE CiosRounds(CiosRound(r, a, b[n]), a, b, n + 1)

\* use_sub = (r[4] != 0) || (borrow == 0); out = use_sub ? tmp : r
FinalSelect(r, tmp) ==
    IF r[5] # 0 \/ tmp.borrow = 0 THEN tmp.out ELSE <<r[1], r[2], r[3], r[4]>>

\* A variant without the final subtraction.
FinalSubtraction_skip(r) == <<r[1], r[2], r[3], r[4]>>

FinalSubtraction(r) == FinalSelect(r, Sub4(<<r[1], r[2], r[3], r[4]>>, BLS_SCALAR_MODULUS))

bls_scalar_mul_mont(a, b) ==
    IF Stored(a) /\ Stored(b)
    THEN FinalSubtraction(CiosRounds(<<0, 0, 0, 0, 0>>, a, b, 1))
    ELSE <<>>

bls_scalar_to_mont(in) == bls_scalar_mul_mont(in, BLS_SCALAR_R2)

bls_scalar_from_mont(in) == bls_scalar_mul_mont(in, <<1, 0, 0, 0>>)

bls_scalar_sqr_mont(a) == bls_scalar_mul_mont(a, a)

\* The inner loop of bls_scalar_exp over the bits of one limb w of the exponent:
\* the pair <<res, base_copy>> after the bits j..LimbBits-1.
RECURSIVE ExpBits(_, _, _, _)
ExpBits(res, base_copy, w, j) ==
    IF j >= LimbBits \/ ~Stored(res) \/ ~Stored(base_copy) THEN <<res, base_copy>>
    ELSE ExpBits(IF w % 2 = 1 THEN bls_scalar_mul_mont(res, base_copy) ELSE res,
                 bls_scalar_sqr_mont(base_copy), w \div 2, j + 1)

\* The outer loop of bls_scalar_exp over the limbs n..4 of the exponent.
RECURSIVE ExpLimbs(_, _, _, _)
ExpNext(rb, exp, n) == ExpLimbs(rb[1], rb[2], exp, n)

ExpLimbs(res, base_copy, exp, n) ==
    IF n > 4 \/ ~Stored(res) THEN res ELSE ExpNext(ExpBits(res, base_copy, exp[n], 0), exp, n + 1)

bls_scalar_exp(base, exp) ==
    ExpLimbs(bls_scalar_to_mont(<<1, 0, 0, 0>>), base, exp, 1)

\* A variant of bls_scalar_inv that raises to P - 1 instead of P - 2.
bls_scalar_inv_Pminus1(in) ==
    LET e0 == sbb(BLS_SCALAR_MODULUS[1], 1, 0)
        e1 == sbb(BLS_SCALAR_MODULUS[2], 0, e0.borrow)
        e2 == sbb(BLS_SCALAR_MODULUS[3], 0, e1.borrow)
        e3 == sbb(BLS_SCALAR_MODULUS[4], 0, e2.borrow)
    IN  bls_scalar_exp(in, <<e0.out, e1.out, e2.out, e3.out>>)

bls_scalar_inv(in) ==
    LET e0 == sbb(BLS_SCALAR_MODULUS[1], 2, 0)
        e1 == sbb(BLS_SCALAR_MODULUS[2], 0, e0.borrow)
        e2 == sbb(BLS_SCALAR_MODULUS[3], 0, e1.borrow)
        e3 == sbb(BLS_SCALAR_MODULUS[4], 0, e2.borrow)
    IN  bls_scalar_exp(in, <<e0.out, e1.out, e2.out, e3.out>>)

bls_scalar_from_uint64(in) == <<in, 0, 0, 0>>

(***************************************************************************)
(* Byte strings.  The source packs 8 bytes of 8 bits into a limb; the      *)
(* model packs BytesPerLimb "bytes" of ByteBits bits, so that a limb is    *)
(* again BytesPerLimb * ByteBits = LimbBits bits and the 32-byte strings   *)
(* of the source have 4 * BytesPerLimb entries, indexed from 0.            *)
(***************************************************************************)
ByteBits == 1

BytesPerLimb == 2

ByteBase == Pow2(ByteBits)

NumBytes == 4 * BytesPerLimb

RECURSIVE ByteSum(_, _, _)
ByteSum(b, from, to) ==
    IF from > to THEN 0 ELSE b[from] + ByteBase * ByteSum(b, from + 1, to)

\* int.to_bytes(32, 'little'), for 0 <= v < 2^256.
int_to_bytes(v) == [n \in 0..(NumBytes - 1) |-> (v \div Pow2(ByteBits * n)) % ByteBase]

\* int.from_bytes(b[:32], 'little')
int_from_bytes(b) == ByteSum(b, 0, NumBytes - 1)

\* w |= in[i*8 + j] << (j*8), for each limb i
bls_scalar_from_bytes(in) ==
    [n \in 1..4 |-> ByteSum(in, (n - 1) * BytesPerLimb, (n - 1) * BytesPerLimb + BytesPerLimb - 1)]

\* out[i*8 + j] = (uint8_t)(w >> (j*8))
bls_scalar_to_bytes(in) ==
    [n \in 0..(NumBytes - 1) |->
        (in[(n \div BytesPerLimb) + 1] \div Pow2(ByteBits * (n % BytesPerLimb))) % ByteBase]

(***************************************************************************)
(* scalar.pyx: the Scalar class.  An operand of an operator is a record:   *)
(* [kind |-> "Scalar", val |-> limbs] or [kind |-> "int", v |-> integer].  *)
(***************************************************************************)
\* The modulus literal of Scalar.__cinit__.
CinitModulus == 113

\* Scalar(value) for an int.
Scalar_int(value) ==
    LET v == value % CinitModulus
    IN  IF v < LimbBase
        THEN bls_scalar_to_mont(bls_scalar_from_uint64(v))
        ELSE bls_scalar_to_mont(bls_scalar_from_bytes(int_to_bytes(v)))

\* "if not isinstance(other, Scalar): other = Scalar(other)"
AsScalar(other) == IF other.kind = "Scalar" THEN other.val ELSE Scalar_int(other.v)

to_int(self) == int_from_bytes(bls_scalar_to_bytes(bls_scalar_from_mont(self)))

Scalar_add(self, other) == bls_scalar_add(self, AsScalar(other))

Scalar_radd(self, other) == Scalar_add(self, other)

Scalar_sub(self, other) == bls_scalar_sub(self, AsScalar(other))

\* A variant of __rsub__ that computes self - other.
Scalar_rsub_unreflected(self, other) == Scalar_sub(self, other)

\* "return Scalar(other) - self"
Scalar_rsub(self, other) == Scalar_sub(AsScalar(other), [kind |-> "Scalar", val |-> self])

Scalar_mul(self, other) == bls_scalar_mul_mont(self, AsScalar(other))

Scalar_rmul(self, other) == Scalar_mul(self, other)

Scalar_neg(self) == bls_scalar_sub(<<0, 0, 0, 0>>, self)

\* __pow__ for an exponent with |exponent| < 2^256 (to_bytes raises beyond).
Scalar_pow(self, exponent) ==
    IF exponent < 0
    THEN LET inv_base == bls_scalar_inv(self)
         IN  IF exponent = -1 THEN inv_base
             ELSE bls_scalar_exp(inv_base, bls_scalar_from_bytes(int_to_bytes(-exponent)))
    ELSE bls_scalar_exp(self, bls_scalar_from_bytes(int_to_bytes(exponent)))

\* __eq__ of two Scalars: limb by limb.
Scalar_eq(self, other) == \A n \in 1..4 : self[n] = other[n]

(***************************************************************************)
(* The Scalar operations as a state machine: val is the value of the       *)
(* Scalar the last expression produced, last names its operator and        *)
(* operands.  An operand is a Scalar built from an int ("new"), a plain    *)
(* int ("int") or the Scalar produced before ("val").  An expression whose *)
(* operands are all given as integers does not read val: from any state it *)
(* leads to the same states, and it is taken from the initial state only.  *)
(* An expression over val is taken from the states a constructor or an     *)
(* expression over val produced (Held): the Scalar an expression over      *)
(* integers produces is one that a constructor produces as well.           *)
(***************************************************************************)
IntInputs == (0 - MaxNeg)..(Modulus + MaxOver)

\* Exponents e with |e| < 2^256.
ExpInputs == (1 - MontR)..(MontR - 1)

\* Every third integer, and the ones next to 0 and to the modulus.
SomeInputs == {v \in IntInputs : v % 3 = 0 \/ v <= 2 \/ v >= Modulus - 2}

\* The integers combined with val, and the exponents every Scalar(a) is raised to.
FewInputs == {0 - MaxNeg, 1, Modulus - 1}

FewExps == {-2, -1, 0, 3, MontR - 1}

\* Operand pairs given as integers: two Scalars built from ints (every integer
\* with the ones of SomeInputs), or one of them and a plain int on either side.
IntPairs ==
    { <<[kind |-> "new", v |-> a], [kind |-> "new", v |-> b]>> : a \in IntInputs, b \in SomeInputs }
      \cup { <<[kind |-> k[1], v |-> a], [kind |-> k[2], v |-> b]>> :
                k \in {<<"new", "int">>, <<"int", "new">>},
                a \in IntInputs, b \in FewInputs \cup {2, Modulus + MaxOver} }

\* Operand pairs over the Scalar produced before.
ValPairs ==
    LET v0 == [kind |-> "val", v |-> 0]
    IN  {<<v0, v0>>}
          \cup { <<v0, [kind |-> "new", v |-> b]>> : b \in FewInputs }
          \cup { <<[kind |-> "int", v |-> b], v0>> : b \in FewInputs }

Fresh == last.op = "none"

Held ==
    \/ last.op = "init"
    \/ last.op \in {"add", "sub", "mul", "neg", "pow"} /\ last.L.kind = "val"
    \/ last.op \in {"add", "sub", "mul"} /\ last.R.kind = "val"

\* The Python object an operand stands for.
Obj(o) ==
    IF o.kind = "int" THEN [kind |-> "int", v |-> o.v]
    ELSE [kind |-> "Scalar", val |-> IF o.kind = "val" THEN val ELSE Scalar_int(o.v)]

\* x + y: x.__add__(y) when x is a Scalar, else y.__radd__(x).
PyAdd(x, y) ==
    IF x.kind # "int" THEN Scalar_add(Obj(x).val, Obj(y)) ELSE Scalar_radd(Obj(y).val, Obj(x))

\* x - y: x.__sub__(y) when x is a Scalar, else y.__rsub__(x).
PySub(x, y) ==
    IF x.kind # "int" THEN Scalar_sub(Obj(x).val, Obj(y)) ELSE Scalar_rsub(Obj(y).val, Obj(x))

\* x * y: x.__mul__(y) when x is a Scalar, else y.__rmul__(x).
PyMul(x, y) ==
    IF x.kind # "int" THEN Scalar_mul(Obj(x).val, Obj(y)) ELSE Scalar_rmul(Obj(y).val, Obj(x))

\* Scalar.__cinit__: Scalar(), Scalar(v) for an int v, Scalar(s) for a Scalar s.
New ==
    /\ \/ /\ Fresh
          /\ val' = <<0, 0, 0, 0>>
          /\ last' = [op |-> "init", L |-> [kind |-> "None", v |-> 0]]
       \/ /\ Fresh
          /\ \E v \in IntInputs :
               /\ val' = Scalar_int(v)
               /\ last' = [op |-> "init", L |-> [kind |-> "int", v |-> v]]
       \/ /\ Held
          /\ val' = val
          /\ last' = [op |-> "init", L |-> [kind |-> "val", v |-> 0]]
    /\ UNCHANGED notScalar

Add ==
    /\ \E lr \in (IF Fresh THEN IntPairs ELSE {}) \cup (IF Held THEN ValPairs ELSE {}) :
         /\ val' = PyAdd(lr[1], lr[2])
         /\ last' = [op |-> "add", L |-> lr[1], R |-> lr[2]]
    /\ UNCHANGED notScalar

Sub ==
    /\ \E lr \in (IF Fresh THEN IntPairs ELSE {}) \cup (IF Held THEN ValPairs ELSE {}) :
         /\ val' = PySub(lr[1], lr[2])
         /\ last' = [op |-> "sub", L |-> lr[1], R |-> lr[2]]
    /\ UNCHANGED notScalar

Mul ==
    /\ \E lr \in (IF Fresh THEN IntPairs ELSE {}) \cup (IF Held THEN ValPairs ELSE {}) :
         /\ val' = PyMul(lr[1], lr[2])
         /\ last' = [op |-> "mul", L |-> lr[1], R |-> lr[2]]
    /\ UNCHANGED notScalar

\* -x
Neg ==
    /\ \E l \in (IF Fresh THEN [kind : {"new"}, v : IntInputs] ELSE {})
                  \cup (IF Held THEN {[kind |-> "val", v |-> 0]} ELSE {}) :
         /\ val' = Scalar_neg(Obj(l).val)
         /\ last' = [op |-> "neg", L |-> l]
    /\ UNCHANGED notScalar

\* x ** e: Scalar(a) ** e for every a and the exponents of FewExps, for a few a
\* and every exponent, and val ** -1 and val ** 3.
PowOp ==
    /\ \E le \in (IF Fresh
                  THEN ([kind : {"new"}, v : IntInputs] \X FewExps)
                         \cup ([kind : {"new"}, v : FewInputs \cup {0, 2}] \X ExpInputs)
                  ELSE {})
                   \cup (IF Held THEN {[kind |-> "val", v |-> 0]} \X {-1, 3} ELSE {}) :
         /\ val' = Scalar_pow(Obj(le[1]).val, le[2])
         /\ last' = [op |-> "pow", L |-> le[1], e |-> le[2]]
    /\ UNCHANGED notScalar

InitScalar == NoCall /\ CurveIdle /\ ScalarIdle /\ FieldIdle /\ NttIdle /\ PolyIdle /\ MemIdle /\ CiosIdle /\ ListIdle /\ BufIdle /\ SqrtIdle

NextScalar ==
    \/ New
    \/ Neg
    \/ PowOp
    \/ Sub
    \/ Add
    \/ Mul

SpecScalar == InitScalar /\ [][NextScalar]_vars

\* a^e mod n, from a^(2k) = (a^2)^k and a^(k+1) = a * a^k.
RECURSIVE PowMod(_, _, _)
PowMod(a, e, n) ==
    IF e = 0 THEN 1 % n
    ELSE IF e % 2 = 0 THEN PowMod((a * a) % n, e \div 2, n)
    ELSE (a * PowMod(a, e - 1, n)) % n

\* The operands of the last operator were both given as integers.
FromInts(o) == o \in {"add", "sub", "mul"} /\ last.op = o /\ last.L.kind # "val" /\ last.R.kind # "val"

\* C2: for integers a, b the sum, difference and product of Scalar(a) and
\* Scalar(b) convert to (a+b) mod P, (a-b) mod P and (a*b) mod P, and -Scalar(a)
\* to (-a) mod P; the same with a plain int on either side (reflected operators).
C2_ScalarArithmetic ==
    /\ FromInts("add") => to_int(val) = (last.L.v + last.R.v) % Modulus
    /\ FromInts("sub") => to_int(val) = (last.L.v - last.R.v) % Modulus
    /\ FromInts("mul") => to_int(val) = (last.L.v * last.R.v) % Modulus
    /\ (last.op = "neg" /\ last.L.kind = "new") => to_int(val) = (0 - last.L.v) % Modulus

\* C2 witness: int - Scalar with a negative int, a wrap below zero and a
\* Scalar argument above the modulus.
C2_Witness ==
    /\ FromInts("sub")
    /\ last.L.kind = "int"
    /\ last.L.v < 0
    /\ last.R.v > Modulus
    /\ to_int(val) = Modulus - 5

\* C3: the limbs of every Scalar encode an integer below the modulus.
C3_AlwaysReduced == LimbsValue(val) < Modulus

\* C3 witness: a product of two results of earlier operations whose stored
\* form is in the upper half of the range.
C3_Witness ==
    /\ last.op = "mul"
    /\ last.L.kind = "val"
    /\ last.R.kind = "val"
    /\ 2 * LimbsValue(val) > Modulus

\* C5: int(Scalar(v)) = v mod P for every integer v; from_mont(to_mont(x)) = x
\* for every x < P; BLS_SCALAR_R2 is R^2 mod P.
C5_IntRoundTrip ==
    /\ (last.op = "init" /\ last.L.kind = "int") =>
          LET x == bls_scalar_from_bytes(int_to_bytes(last.L.v % Modulus))
          IN  /\ to_int(val) = last.L.v % Modulus
              /\ bls_scalar_from_mont(bls_scalar_to_mont(x)) = x
    /\ LimbsValue(BLS_SCALAR_R2) = (MontR * MontR) % Modulus

\* C5 witnesses: an argument above the modulus, a negative one, one below 2^64
\* and one between 2^64 and P.
C5_Witness ==
    /\ last.op = "init" /\ last.L.kind = "int"
    /\ last.L.v > Modulus
    /\ to_int(val) = 2

C5_WitnessNegative ==
    /\ last.op = "init" /\ last.L.kind = "int"
    /\ last.L.v < 0

C5_WitnessLarge ==
    /\ last.op = "init" /\ last.L.kind = "int"
    /\ last.L.v >= LimbBase /\ last.L.v < Modulus
    /\ val # bls_scalar_from_bytes(int_to_bytes(last.L.v))

\* C9: bls_scalar_inv(a) is a^(P-2) in Montgomery form; for a # 0,
\* Scalar(a) * Scalar(a)**(-1) == Scalar(1); for a = 0 the inverse is 0;
\* Scalar(a)**e is a^e mod P for 0 <= e < 2^256 and (a^(P-2))^|e| mod P for
\* -2^256 < e < 0.
C9_PowAndInverse ==
    (last.op = "pow" /\ last.L.kind = "new") =>
        LET a == last.L.v % Modulus
            sa == Scalar_int(last.L.v)
            inv == bls_scalar_inv(sa)
        IN  /\ last.e >= 0 => to_int(val) = PowMod(a, last.e, Modulus)
            /\ last.e < 0 =>
                  to_int(val) = PowMod(PowMod(a, Modulus - 2, Modulus), 0 - last.e, Modulus)
            /\ last.e = -1 =>
                  /\ val = inv
                  /\ inv = bls_scalar_to_mont(
                              bls_scalar_from_bytes(int_to_bytes(PowMod(a, Modulus - 2, Modulus))))
                  /\ a # 0 => Scalar_eq(Scalar_mul(sa, [kind |-> "Scalar", val |-> val]),
                                        Scalar_int(1))
                  /\ a = 0 => val = <<0, 0, 0, 0>>

\* C9 witnesses: an inverse of a non-zero element, a negative exponent other
\* than -1 that uses the highest limb, and the inverse of 0.
C9_Witness ==
    /\ last.op = "pow" /\ last.L.kind = "new"
    /\ last.e = -1
    /\ last.L.v % Modulus > 1
    /\ to_int(val) # last.L.v % Modulus

C9_WitnessNegative ==
    /\ last.op = "pow" /\ last.L.kind = "new"
    /\ last.e < 0 - (MontR \div 2)
    /\ to_int(val) > 1

C9_WitnessZero ==
    /\ last.op = "pow" /\ last.L.kind = "new"
    /\ last.e = -1
    /\ last.L.v = 0


(***************************************************************************)
(* field_ops: is_square, sqrt_mod and map_to_curve_ell2_fast.  gmpy2's mpz *)
(* holds the integer it is built from, and powmod and invert are modelled  *)
(* by what they return.  A function that reads _prime_cache returns the    *)
(* record [ret |-> its value, cache |-> _prime_cache after the call].       *)
(***************************************************************************)
\* gmpy2.powmod(base, exp, mod) for exp >= 0.
RECURSIVE _powmod(_, _, _)
_powmod(base, exp, mod) ==
    IF exp = 0 THEN 1 % mod
    ELSE IF exp % 2 = 0 THEN _powmod((base * base) % mod, exp \div 2, mod)
    ELSE (base * _powmod(base, exp - 1, mod)) % mod

\* gmpy2.invert(x, mod) returns a value (and does not raise ZeroDivisionError).
Invertible(x, mod) == \E r \in 1..(mod - 1) : (r * x) % mod = 1

\* "_prime_cache[p] = _mpz(p)"
DictSet(cache, key, v) ==
    [k \in DOMAIN cache \cup {key} |-> IF k = key THEN v ELSE cache[k]]

\* "return _prime_cache[p]"
DictGet(cache, key) == [ret |-> cache[key], cache |-> cache]

\* A variant that returns an entry of the cache without looking at the key.
get_mpz_prime_anyentry(p, cache) ==
    IF DOMAIN cache = {} THEN DictGet(DictSet(cache, p, p), p)
    ELSE DictGet(cache, CHOOSE k \in DOMAIN cache : TRUE)

_get_mpz_prime(p, cache) ==
    DictGet(IF p \in DOMAIN cache THEN cache ELSE DictSet(cache, p, p), p)

is_square_pm(x, p, pm) == [ret |-> _powmod(x, (p - 1) \div 2, pm.ret) = 1, cache |-> pm.cache]

is_square(x, p, cache) ==
    IF x = 0 THEN [ret |-> TRUE, cache |-> cache]
    ELSE is_square_pm(x, p, _get_mpz_prime(p, cache))

\* The values sqrt_mod returns: None, or an integer.
None == [some |-> FALSE, v |-> 0]

Some(v) == [some |-> TRUE, v |-> v]

\* "while Q % 2 == 0: Q //= 2; S += 1"
RECURSIVE FactorTwos(_, _)
FactorTwos(Q, S) ==
    IF Q % 2 = 0 THEN FactorTwos(Q \div 2, S + 1) ELSE [Q |-> Q, S |-> S]

\* "while is_square(z, p): z += 1"
RECURSIVE FindNonResidue(_, _, _)
FindNonResidue(z, p, cache) ==
    IF is_square(z, p, cache).ret
    THEN FindNonResidue(z + 1, p, is_square(z, p, cache).cache)
    ELSE [ret |-> z, cache |-> is_square(z, p, cache).cache]

\* "i = 1; temp = (t * t) % p; while temp != 1: temp = (temp * temp) % p; i += 1"
RECURSIVE LeastI(_, _, _)
LeastI(temp, n, p) == IF temp # 1 THEN LeastI((temp * temp) % p, n + 1, p) ELSE n

\* "for _ in range(n): b = (b * b) % p"
RECURSIVE SquareTimes(_, _, _)
SquareTimes(b, n, p) == IF n <= 0 THEN b ELSE SquareTimes((b * b) % p, n - 1, p)

\* A variant of the update of the Tonelli-Shanks loop that leaves R as it is.
RECURSIVE TonelliLoop(_, _, _, _, _)
TonelliUpdate_keepR(t, Rt, p, n, b) ==
    TonelliLoop(n, (b * b) % p, (t * ((b * b) % p)) % p, Rt, p)

\* "M = i; c = (b * b) % p; t = (t * c) % p; R = (R * b) % p"
TonelliUpdate(t, Rt, p, n, b) ==
    TonelliLoop(n, (b * b) % p, (t * ((b * b) % p)) % p, (Rt * b) % p, p)

\* "b = c; for _ in range(M - i - 1): b = (b * b) % p"
TonelliStep(M, c, t, Rt, p, n) == TonelliUpdate(t, Rt, p, n, SquareTimes(c, M - n - 1, p))

\* The "while True" loop of sqrt_mod.
TonelliLoop(M, c, t, Rt, p) ==
    IF t = 0 THEN 0
    ELSE IF t = 1 THEN Rt
    ELSE TonelliStep(M, c, t, Rt, p, LeastI((t * t) % p, 1, p))

\* "M = S; c = powmod(z, Q, pm); t = powmod(xm, Q, pm); R = powmod(xm, (Q+1)//2, pm)"
TonelliShanks(x, p, pm, QS, z) ==
    [ret |-> Some(TonelliLoop(QS.S, _powmod(z.ret, QS.Q, pm), _powmod(x, QS.Q, pm),
                              _powmod(x, (QS.Q + 1) \div 2, pm), p)),
     cache |-> z.cache]

sqrt_mod_pm(x, p, pm) ==
    IF _powmod(x, (p - 1) \div 2, pm.ret) # 1 THEN [ret |-> None, cache |-> pm.cache]
    ELSE IF p % 4 = 3
    THEN [ret |-> Some(_powmod(x, (p + 1) \div 4, pm.ret)), cache |-> pm.cache]
    ELSE TonelliShanks(x, p, pm.ret, FactorTwos(p - 1, 0), FindNonResidue(2, p, pm.cache))

sqrt_mod(x, p, cache) ==
    IF x = 0 THEN [ret |-> Some(0), cache |-> cache]
    ELSE sqrt_mod_pm(x, p, _get_mpz_prime(p, cache))

\* What map_to_curve_ell2_fast does: it returns (s, t), or it raises.
Returns(s, t, cache) == [status |-> "ok", s |-> s, t |-> t, cache |-> cache]

Raises(e, cache) == [status |-> e, s |-> 0, t |-> 0, cache |-> cache]

\* "e3 = (ym % 2) == 1; if e2 ^ e3: ym = -ym % pm; s = (x * Km) % pm;
\* t = (ym * Km) % pm", after the ValueError when sqrt_mod returned None.
Ell2Finish(K, p, e2, x, y) ==
    IF ~y.ret.some THEN Raises("ValueError", y.cache)
    ELSE Returns((x * K) % p,
                 ((IF e2 # (y.ret.v % 2 = 1) THEN (0 - y.ret.v) % p ELSE y.ret.v) * K) % p,
                 y.cache)

\* "if e2: x = x1; y2 = gx1 else: x = x2; y2 = gx2", and y = sqrt_mod(y2, p)
Ell2Choose(K, p, x1, gx1, x2, gx2, e2) ==
    IF e2.ret THEN Ell2Finish(K, p, TRUE, x1, sqrt_mod(gx1, p, e2.cache))
    ELSE Ell2Finish(K, p, FALSE, x2, sqrt_mod(gx2, p, e2.cache))

\* "x2 = (-x1 - c1) % p; gx2 = (tv1 * gx1) % p; e2 = is_square(gx1, p)"
Ell2Gx1(K, p, cache, c1, tv1, x1, gx1) ==
    Ell2Choose(K, p, x1, gx1, (0 - x1 - c1) % p, (tv1 * gx1) % p, is_square(gx1, p, cache))

\* "gx1 = (((x1 + c1) * x1 + c2) * x1) % p"
Ell2X1(K, p, cache, c1, c2, tv1, x1) ==
    Ell2Gx1(K, p, cache, c1, tv1, x1, (((x1 + c1) * x1 + c2) * x1) % p)

\* A variant that uses tv1 as computed, without the exceptional case.
Ell2Tv1_asis(K, p, cache, c1, c2, tv1) ==
    IF ~Invertible(tv1 + 1, p) THEN Raises("ZeroDivisionError", cache)
    ELSE Ell2X1(K, p, cache, c1, c2, tv1, ((0 - c1) * invert(tv1 + 1, p)) % p)

\* "e1 = (tv1 == -1) or (tv1 == pm - 1); if e1: tv1 = 0;
\* x1 = (-c1 * invert(tv1 + 1, pm)) % pm"
Ell2Tv1(K, p, cache, c1, c2, tv1) ==
    IF tv1 = -1 \/ tv1 = p - 1 THEN Ell2Tv1_asis(K, p, cache, c1, c2, 0)
    ELSE Ell2Tv1_asis(K, p, cache, c1, c2, tv1)

\* "c1 = (J * invert(K, pm)) % pm; c2 = invert((K * K) % pm, pm);
\* tv1 = (Z * u * u) % pm"
map_to_curve_ell2_pm(u, J, K, Z, p, pm) ==
    IF ~Invertible(K, pm.ret) \/ ~Invertible((K * K) % pm.ret, pm.ret)
    THEN Raises("ZeroDivisionError", pm.cache)
    ELSE Ell2Tv1(K, p, pm.cache, (J * invert(K, pm.ret)) % pm.ret,
                 invert((K * K) % pm.ret, pm.ret), (Z * u * u) % pm.ret)

\* map_to_curve_ell2_fast run on a given _prime_cache.
map_to_curve_ell2_on(u, J, K, Z, p, cache) ==
    map_to_curve_ell2_pm(u, J, K, Z, p, _get_mpz_prime(p, cache))

map_to_curve_ell2_fast(u, J, K, Z, p) ==
    map_to_curve_ell2_on(u, J, K, Z, p, _prime_cache)

(***************************************************************************)
(* The functions of field_ops as calls: a call runs the function on its    *)
(* arguments, stores what it returns in result and leaves in _prime_cache  *)
(* the primes the function has cached.                                     *)
(***************************************************************************)
IsPrime(n) == n > 1 /\ \A k \in 2..(n - 1) : n % k # 0

\* The odd primes up to MaxP, and 41 (p - 1 = 5 * 2^3).
Primes == {n \in 3..MaxP : IsPrime(n)} \cup {41}

MapPrimes == {n \in 3..MaxMapP : IsPrime(n)}

IsSquareCall(primes) ==
    /\ pc = "idle"
    /\ \E p \in primes :
         \E x \in 0..(p - 1) :
           /\ call' = [fn |-> "is_square", x |-> x, p |-> p]
           /\ result' = is_square(x, p, _prime_cache).ret
           /\ _prime_cache' = is_square(x, p, _prime_cache).cache
    /\ pc' = "done"
    /\ UNCHANGED notField

SqrtModCall(primes) ==
    /\ pc = "idle"
    /\ \E p \in primes :
         \E x \in 0..(p - 1) :
           /\ call' = [fn |-> "sqrt_mod", x |-> x, p |-> p]
           /\ result' = sqrt_mod(x, p, _prime_cache).ret
           /\ _prime_cache' = sqrt_mod(x, p, _prime_cache).cache
    /\ pc' = "done"
    /\ UNCHANGED notField

MapToCurveCall(primes) ==
    /\ pc = "idle"
    /\ \E p \in primes :
         \E u \in 0..(p - 1), J \in 0..(p - 1), K \in 1..(p - 1), Z \in 0..(p - 1) :
           \E m \in {map_to_curve_ell2_fast(u, J, K, Z, p)} :
             /\ call' = [fn |-> "map_to_curve_ell2_fast",
                         u |-> u, J |-> J, K |-> K, Z |-> Z, p |-> p]
             /\ result' = [status |-> m.status, s |-> m.s, t |-> m.t]
             /\ _prime_cache' = m.cache
    /\ pc' = "done"
    /\ UNCHANGED notField

CallIsSquare == IsSquareCall(Primes)

CallSqrtMod == SqrtModCall(Primes)

CallMapToCurve == MapToCurveCall(MapPrimes)

InitField == NoCall /\ CurveIdle /\ ScalarIdle /\ FieldIdle /\ NttIdle /\ PolyIdle /\ MemIdle /\ CiosIdle /\ ListIdle /\ BufIdle /\ SqrtIdle

NextField ==
    \/ CallIsSquare
    \/ CallSqrtMod
    \/ CallMapToCurve

SpecField == InitField /\ [][NextField]_vars

\* x is a non-zero square modulo p.
IsResidue(x, p) == \E r \in 1..(p - 1) : (r * r) % p = x

\* C6: for an odd prime p and 0 <= x < p, sqrt_mod(x, p) returns a root r of x
\* (r*r = x mod p) when x is 0 or a quadratic residue and None when x is a
\* non-residue, and is_square(x, p) is true exactly when sqrt_mod(x, p) is not
\* None; on the p = 3 (mod 4) path and on the Tonelli-Shanks path.
C6_SqrtAndIsSquare ==
    /\ Returned("sqrt_mod") =>
          /\ (call.x = 0 \/ IsResidue(call.x, call.p)) =>
                result.some /\ (result.v * result.v) % call.p = call.x
          /\ ~(call.x = 0 \/ IsResidue(call.x, call.p)) => result = None
          /\ is_square(call.x, call.p, <<>>).ret <=> result.some
    /\ Returned("is_square") =>
          (result <=> sqrt_mod(call.x, call.p, <<>>).ret.some)

\* C6 witnesses: a root found by the Tonelli-Shanks loop after at least one
\* update (p = 1 mod 4, t # 1 at the start); a root on the fast path; None.
C6_Witness ==
    /\ Returned("sqrt_mod")
    /\ call.p % 8 = 1
    /\ result.some
    /\ _powmod(call.x, FactorTwos(call.p - 1, 0).Q, call.p) # 1

C6_WitnessFast ==
    /\ Returned("sqrt_mod")
    /\ call.p % 4 = 3
    /\ result.some
    /\ result.v > 1

C6_WitnessNone ==
    /\ Returned("sqrt_mod")
    /\ call.p % 4 = 1
    /\ result = None

\* C7: for u in [0, p), K # 0 and Z a non-square modulo p,
\* map_to_curve_ell2_fast(u, J, K, Z, p) returns (s, t) with
\* K*t^2 = s^3 + J*s^2 + s (mod p); it raises neither ValueError nor
\* ZeroDivisionError.
C7_MapOnCurve ==
    (Returned("map_to_curve_ell2_fast") /\ call.Z # 0 /\ ~IsResidue(call.Z, call.p)) =>
        /\ result.status = "ok"
        /\ (call.K * result.t * result.t) % call.p
             = (result.s * result.s * result.s + call.J * result.s * result.s + result.s) % call.p

\* C7 witnesses: the exceptional case Z*u^2 = -1; a point with t # 0 taken
\* from x2 (gx1 is not a square) on a prime p = 1 (mod 4).
C7_Witness ==
    /\ Returned("map_to_curve_ell2_fast")
    /\ call.Z # 0 /\ ~IsResidue(call.Z, call.p)
    /\ (call.Z * call.u * call.u) % call.p = call.p - 1
    /\ result.status = "ok"
    /\ result.t # 0

C7_WitnessX2 ==
    /\ Returned("map_to_curve_ell2_fast")
    /\ call.Z # 0 /\ ~IsResidue(call.Z, call.p)
    /\ call.p % 4 = 1
    /\ result.status = "ok"
    /\ result.t # 0
    /\ LET c1 == (call.J * invert(call.K, call.p)) % call.p
           tv1 == (call.Z * call.u * call.u) % call.p
           x1 == ((0 - c1) * invert(tv1 + 1, call.p)) % call.p
       IN  result.s # (x1 * call.K) % call.p

\* With a square Z the ValueError is raised: the condition on Z is needed.
C7_WitnessSquareZ ==
    /\ Returned("map_to_curve_ell2_fast")
    /\ IsResidue(call.Z, call.p)
    /\ result.status = "ValueError"


(***************************************************************************)
(* ntt_in_place: the gmpy2 version and the native version, which runs      *)
(* bls_scalar_ntt_round once per stage on Montgomery forms.  A list is a   *)
(* function on 0..n-1.  A call is a sequence of steps: the bit-reverse     *)
(* permutation, one step per stage, and the conversion back; the native    *)
(* version's allocations are taken to succeed.                             *)
(***************************************************************************)
\* "temp = [coeffs[rev[i]] for i in range(n)]; coeffs[i] = temp[i]"; mpz() and
\* int() keep the integers.
BitReversePermutation(c, rev, n) == [idx \in 0..(n - 1) |-> c[rev[idx]]]

\* A variant of the butterfly with the difference taken the other way round.
Butterfly_tMinusU(c, w, idx1, idx2, p) ==
    [c EXCEPT ![idx1] = (c[idx1] + ((w * c[idx2]) % p)) % p,
              ![idx2] = (((w * c[idx2]) % p) - c[idx1]) % p]

\* "t = (w * coeffs[idx2]) % p; u = coeffs[idx1]; coeffs[idx1] = (u + t) % p;
\* coeffs[idx2] = (u - t) % p"
Butterfly(c, w, idx1, idx2, p) ==
    [c EXCEPT ![idx1] = (c[idx1] + ((w * c[idx2]) % p)) % p,
              ![idx2] = (c[idx1] - ((w * c[idx2]) % p)) % p]

\* "for j in range(half_m)" in the block that starts at k
RECURSIVE NttBlock(_, _, _, _, _, _)
NttBlock(c, stage_twiddles, k, j, half_m, p) ==
    IF j >= half_m THEN c
    ELSE NttBlock(Butterfly(c, stage_twiddles[j], k + j, k + j + half_m, p),
                  stage_twiddles, k, j + 1, half_m, p)

\* "while k < n: ...; k += m"
RECURSIVE NttBlocks(_, _, _, _, _, _)
NttBlocks(c, stage_twiddles, k, blk, n, p) ==
    IF k >= n THEN c
    ELSE NttBlocks(NttBlock(c, stage_twiddles, k, 0, blk \div 2, p),
                   stage_twiddles, k + blk, blk, n, p)

\* The native version's conversion of an entry: "coeffs_c[i] = Scalar(val).val"
coeffs_c_of(c, rev, n) == [idx \in 0..(n - 1) |-> Scalar_int(c[rev[idx]])]

\* A variant that stores the twiddles as plain limbs, not in Montgomery form.
twiddles_c_plain(stage_twiddles_list, half_m) ==
    [idx \in 0..(half_m - 1) |-> bls_scalar_from_mont(Scalar_int(stage_twiddles_list[idx]))]

\* "twiddles_c[i] = Scalar(val).val" for i in range(half_m)
twiddles_c_of(stage_twiddles_list, half_m) ==
    [idx \in 0..(half_m - 1) |-> Scalar_int(stage_twiddles_list[idx])]

\* A variant of the butterfly that stores u first and computes v from it.
RoundStore_uFirst(c, iu, iv, t) ==
    [c EXCEPT ![iu] = bls_scalar_add(c[iu], t),
              ![iv] = bls_scalar_sub(bls_scalar_add(c[iu], t), t)]

\* "t = w * v; v = u - t; u = u + t" on coeffs[k + j] and coeffs[k + j + half_m]
RoundStore(c, iu, iv, t) ==
    [c EXCEPT ![iv] = bls_scalar_sub(c[iu], t), ![iu] = bls_scalar_add(c[iu], t)]

RoundButterfly(c, w, iu, iv) == RoundStore(c, iu, iv, bls_scalar_mul_mont(w, c[iv]))

\* "for (size_t j = 0; j < half_m; j++)"
RECURSIVE RoundBlock(_, _, _, _, _)
RoundBlock(c, twiddles, k, j, half_m) ==
    IF j >= half_m THEN c
    ELSE RoundBlock(RoundButterfly(c, twiddles[j], k + j, k + j + half_m),
                    twiddles, k, j + 1, half_m)

\* "for (size_t k = 0; k < n; k += m)"
RECURSIVE RoundBlocks(_, _, _, _, _)
RoundBlocks(c, twiddles, k, blk, n) ==
    IF k >= n THEN c
    ELSE RoundBlocks(RoundBlock(c, twiddles, k, 0, blk \div 2), twiddles, k + blk, blk, n)

bls_scalar_ntt_round(c, n, twiddles, blk) == RoundBlocks(c, twiddles, 0, blk, n)

\* "s.val = coeffs_c[i]; coeffs[i] = int(s)"
coeffs_of(c, n) == [idx \in 0..(n - 1) |-> to_int(c[idx])]

\* "while m <= n" of the gmpy2 version, from the stage with blocks of blk entries.
RECURSIVE NttStages(_, _, _, _, _, _)
NttStages(c, twiddles, stage, blk, n, p) ==
    IF blk > n THEN c
    ELSE NttStages(NttBlocks(c, twiddles[stage], 0, blk, n, p), twiddles, stage + 1,
                   2 * blk, n, p)

\* The gmpy2 version as a function of its arguments: the list it leaves in coeffs.
ntt_in_place_gmpy2(c, twiddles, rev, prime, n) ==
    IF n = 1 THEN c
    ELSE NttStages(BitReversePermutation(c, rev, n), twiddles, 0, 2, n, prime)

\* "while m <= n" of the native version.
RECURSIVE RoundStages(_, _, _, _, _)
RoundStages(c, twiddles, stage, blk, n) ==
    IF blk > n THEN c
    ELSE RoundStages(bls_scalar_ntt_round(c, n, twiddles_c_of(twiddles[stage], blk \div 2), blk),
                     twiddles, stage + 1, 2 * blk, n)

\* The native version as a function of its arguments; prime is not used.
ntt_in_place_native(c, twiddles, rev, prime, n) ==
    IF n = 1 THEN c
    ELSE coeffs_of(RoundStages(coeffs_c_of(c, rev, n), twiddles, 0, 2, n), n)

(***************************************************************************)
(* The tables ntt_in_place is given.  The code that builds them is not     *)
(* part of the source at hand; they are the ones the specification names:  *)
(* rev the bit-reversal permutation, twiddles[s][j] = w^(j*n/2^(s+1)) for  *)
(* a primitive n-th root of unity w, and for the inverse transform the     *)
(* twiddles of w^-1 and a multiplication of every entry by n^-1.           *)
(***************************************************************************)
RECURSIVE Log2(_)
Log2(n) == IF n <= 1 THEN 0 ELSE 1 + Log2(n \div 2)

RECURSIVE BitReverse(_, _)
BitReverse(x, bits) ==
    IF bits = 0 THEN 0 ELSE ((x % 2) * Pow2(bits - 1)) + BitReverse(x \div 2, bits - 1)

RevTable(n) == [idx \in 0..(n - 1) |-> BitReverse(idx, Log2(n))]

RootOfUnity(n, p) ==
    IF n = 1 THEN 1
    ELSE CHOOSE w \in 1..(p - 1) : _powmod(w, n, p) = 1 /\ _powmod(w, n \div 2, p) = p - 1

StageTwiddles(n, w, p) ==
    [s \in 0..(Log2(n) - 1) |->
        [j \in 0..(Pow2(s) - 1) |-> _powmod(w, j * (n \div Pow2(s + 1)), p)]]

ScaleByInverseOfN(c, n, p) == [idx \in 0..(n - 1) |-> (c[idx] * invert(n % p, p)) % p]

(***************************************************************************)
(* The transform as a process.  The input lists are the values of the      *)
(* quadratics a*x^2 + b*x + c on 0..n-1, with a, b in 0..MaxCoef and c in  *)
(* {0, 1, p-1}.  The gmpy2 version runs on the primes 17 and P, the native *)
(* version on P.  After a forward transform the inverse one runs on its    *)
(* output, followed by the multiplication by n^-1.                         *)
(***************************************************************************)
NttPrimes == {17, Modulus}

NttSizes == {Pow2(k) : k \in 0..MaxLogN}

InputLists(n, p) ==
    { [idx \in 0..(n - 1) |-> ((a * idx * idx) + (b * idx) + c) % p] :
        a \in 0..MaxCoef, b \in 0..MaxCoef, c \in {0, 1, p - 1} }

\* The entry of ntt_in_place up to the first stage; "if n == 1: return".
NttEnter(impl, f, f0, n, w, p, dir) ==
    /\ call' = [fn |-> "ntt_in_place", impl |-> impl, n |-> n, prime |-> p, dir |-> dir,
                f |-> f0, input |-> f, w |-> w,
                twiddles |-> StageTwiddles(n, w, p), rev |-> RevTable(n)]
    /\ ntt' = [stage |-> 0, m |-> 2]
    /\ IF n = 1
       THEN /\ coeffs' = f
            /\ coeffs_c' = <<>>
            /\ pc' = "done"
       ELSE /\ IF impl = "gmpy2"
               THEN /\ coeffs' = BitReversePermutation(f, RevTable(n), n)
                    /\ coeffs_c' = <<>>
               ELSE /\ coeffs' = f
                    /\ coeffs_c' = coeffs_c_of(f, RevTable(n), n)
            /\ pc' = "stages"
    /\ result' = <<>>

\* ntt_in_place(coeffs, twiddles, rev, prime) with the forward twiddles.
NttBegin ==
    /\ pc = "idle"
    /\ \E impl \in {"gmpy2", "native"} :
         \E p \in (IF impl = "gmpy2" THEN NttPrimes ELSE {Modulus}) :
           \E n \in NttSizes :
             \E f \in InputLists(n, p) :
               NttEnter(impl, f, f, n, RootOfUnity(n, p), p, "forward")
    /\ UNCHANGED notNtt

\* A variant that adds 2 to the block size.
NextBlockSize_plusTwo(m) == m + 2

\* "m <<= 1"
NextBlockSize(m) == 2 * m

\* One pass of "while m <= n": the butterflies of a stage.
NttStage ==
    /\ pc = "stages"
    /\ ntt.m <= call.n
    /\ IF call.impl = "gmpy2"
       THEN /\ coeffs' = NttBlocks(coeffs, call.twiddles[ntt.stage], 0, ntt.m, call.n,
                                   call.prime)
            /\ coeffs_c' = coeffs_c
       ELSE /\ coeffs_c' = bls_scalar_ntt_round(coeffs_c, call.n,
                              twiddles_c_of(call.twiddles[ntt.stage], ntt.m \div 2), ntt.m)
            /\ coeffs' = coeffs
    /\ ntt' = [stage |-> ntt.stage + 1, m |-> NextBlockSize(ntt.m)]
    /\ UNCHANGED <<pc, call, result>>
    /\ UNCHANGED notNtt

\* The end of the call: the entries are converted back to int.
NttEnd ==
    /\ pc = "stages"
    /\ ntt.m > call.n
    /\ IF call.impl = "gmpy2"
       THEN coeffs' = coeffs
       ELSE coeffs' = coeffs_of(coeffs_c, call.n)
    /\ coeffs_c' = <<>>
    /\ pc' = "done"
    /\ UNCHANGED <<call, result, ntt>>
    /\ UNCHANGED notNtt

\* The inverse transform on the output of the forward one.
InttBegin ==
    /\ pc = "done"
    /\ call.fn = "ntt_in_place"
    /\ call.dir = "forward"
    /\ NttEnter(call.impl, coeffs, call.f, call.n,
                invert(RootOfUnity(call.n, call.prime), call.prime), call.prime, "inverse")
    /\ UNCHANGED notNtt

\* The multiplication by n^-1 that ends the inverse transform.
InttScale ==
    /\ pc = "done"
    /\ call.fn = "ntt_in_place"
    /\ call.dir = "inverse"
    /\ coeffs' = ScaleByInverseOfN(coeffs, call.n, call.prime)
    /\ pc' = "scaled"
    /\ UNCHANGED <<call, result, coeffs_c, ntt>>
    /\ UNCHANGED notNtt

InitNtt == NoCall /\ CurveIdle /\ ScalarIdle /\ FieldIdle /\ NttIdle /\ PolyIdle /\ MemIdle /\ CiosIdle /\ ListIdle /\ BufIdle /\ SqrtIdle

NextNtt ==
    \/ NttBegin
    \/ NttStage
    \/ NttEnd
    \/ InttBegin
    \/ InttScale

SpecNtt == InitNtt /\ [][NextNtt]_vars

\* C4: for n = 2^k and a list f of n field elements, ntt_in_place with the
\* forward twiddles, then ntt_in_place with the inverse twiddles and the
\* multiplication of every entry by n^-1, gives f back: INTT(NTT(f)) = f.
C4_RoundTrip == pc = "scaled" => coeffs = call.f

\* C4 witnesses: a round trip of the native version on the longest list whose
\* transform differs from the list; one of the gmpy2 version.
C4_Witness ==
    /\ pc = "scaled"
    /\ call.impl = "native"
    /\ call.n = Pow2(MaxLogN)
    /\ \E idx \in 1..(call.n - 1) : call.f[idx] # call.f[0]

C4_WitnessGmpy2 ==
    /\ pc = "scaled"
    /\ call.impl = "gmpy2"
    /\ call.prime = 17
    /\ call.n = Pow2(MaxLogN)
    /\ \E idx \in 1..(call.n - 1) : call.f[idx] # call.f[0]

(***************************************************************************)
(* Polynomials: poly_mul_linear and poly_multiply_naive.  A coefficient    *)
(* list is a function on 0..n-1.  poly_mul_linear is a process: the first  *)
(* entry, one step per pass of its loop, the last entry; every read of an  *)
(* entry of poly is counted.                                               *)
(***************************************************************************)
\* "if x >= prime: x = x % prime"
Normalize(x, prime) == IF x >= prime THEN x % prime ELSE x

\* The entry None of "result = [None] * (n + 1)".
NoneEntry == -1

\* "[0] * result_len"
Zeros(len) == [idx \in 0..(len - 1) |-> 0]

\* "current = result[i + j] + prod; if current >= prime: current -= prime"
NaiveAccumulate(current, prime) == IF current >= prime THEN current - prime ELSE current

\* "for j in range(len2)" of poly_multiply_naive, for the entry val1 at idx
RECURSIVE NaiveInner(_, _, _, _, _, _, _)
NaiveInner(res, val1, poly2, idx, j, len2, prime) ==
    IF j >= len2 THEN res
    ELSE NaiveInner(
           IF Normalize(poly2[j], prime) = 0 THEN res
           ELSE [res EXCEPT ![idx + j] =
                   NaiveAccumulate(res[idx + j] + ((val1 * Normalize(poly2[j], prime)) % prime),
                                   prime)],
           val1, poly2, idx, j + 1, len2, prime)

\* "for i in range(len1)" of poly_multiply_naive
RECURSIVE NaiveOuter(_, _, _, _, _, _, _)
NaiveOuter(res, poly1, poly2, idx, len1, len2, prime) ==
    IF idx >= len1 THEN res
    ELSE NaiveOuter(
           IF Normalize(poly1[idx], prime) = 0 THEN res
           ELSE NaiveInner(res, Normalize(poly1[idx], prime), poly2, idx, 0, len2, prime),
           poly1, poly2, idx + 1, len1, len2, prime)

poly_multiply_naive(poly1, len1, poly2, len2, prime) ==
    NaiveOuter(Zeros(len1 + len2 - 1), poly1, poly2, 0, len1, len2, prime)

\* "result[0] = (b * coef) % prime", coef the normalized poly[0]
LinearFirst(poly, b, prime) == (b * Normalize(poly[0], prime)) % prime

\* A variant of the middle entry that reads poly[i] for both terms.
LinearMiddle_sameCoef(poly, a, b, idx, prime) ==
    (((a * Normalize(poly[idx], prime)) % prime)
       + ((b * Normalize(poly[idx], prime)) % prime)) % prime

\* "term1 = (a * prev_coef) % prime; term2 = (b * coef) % prime;
\* result[i] = (term1 + term2) % prime"
LinearMiddle(poly, a, b, idx, prime) ==
    (((a * Normalize(poly[idx - 1], prime)) % prime)
       + ((b * Normalize(poly[idx], prime)) % prime)) % prime

\* "result[n] = (a * coef) % prime", coef the normalized poly[n - 1]
LinearLast(poly, a, n, prime) == (a * Normalize(poly[n - 1], prime)) % prime

PolyPrimes == {3, 5}

\* Coefficients below 0, in range, and at or above the prime.
PolyValues(p) == {-1, 0, 1, p, p + 1}

PolyFactors(p) == {0, 1, p - 1, p + 1}

\* poly_mul_linear(poly, a, b, prime) up to its loop.
PolyMulLinearBegin ==
    /\ pc = "idle"
    /\ \E p \in PolyPrimes : \E n \in 1..MaxPolyLen :
         \E poly \in [0..(n - 1) -> PolyValues(p)] :
           \E a \in PolyFactors(p), b \in PolyFactors(p) :
             /\ call' = [fn |-> "poly_mul_linear", poly |-> poly, n |-> n, a0 |-> a, b0 |-> b,
                         a |-> Normalize(a, p), b |-> Normalize(b, p), prime |-> p]
             /\ result' = [[idx \in 0..n |-> NoneEntry] EXCEPT
                              ![0] = LinearFirst(poly, Normalize(b, p), p)]
             /\ linear' = [i |-> 1, reads |-> [Zeros(n) EXCEPT ![0] = 1]]
    /\ pc' = "middle"
    /\ UNCHANGED notPoly

\* One pass of "for i in range(1, n)".
PolyMulLinearStep ==
    /\ pc = "middle"
    /\ linear.i < call.n
    /\ result' = [result EXCEPT ![linear.i] =
                     LinearMiddle(call.poly, call.a, call.b, linear.i, call.prime)]
    /\ linear' = [i |-> linear.i + 1,
                  reads |-> [linear.reads EXCEPT ![linear.i - 1] = @ + 1, ![linear.i] = @ + 1]]
    /\ UNCHANGED <<pc, call>>
    /\ UNCHANGED notPoly

\* The last entry and the return.
PolyMulLinearEnd ==
    /\ pc = "middle"
    /\ linear.i >= call.n
    /\ result' = [result EXCEPT ![call.n] = LinearLast(call.poly, call.a, call.n, call.prime)]
    /\ linear' = [linear EXCEPT !.reads[call.n - 1] = @ + 1]
    /\ pc' = "done"
    /\ UNCHANGED call
    /\ UNCHANGED notPoly

InitPoly == NoCall /\ CurveIdle /\ ScalarIdle /\ FieldIdle /\ NttIdle /\ PolyIdle /\ MemIdle /\ CiosIdle /\ ListIdle /\ BufIdle /\ SqrtIdle

NextPoly ==
    \/ PolyMulLinearBegin
    \/ PolyMulLinearStep
    \/ PolyMulLinearEnd

SpecPoly == InitPoly /\ [][NextPoly]_vars

\* The coefficient of x^k of f(x) * (a*x + b) modulo p, f of n entries.
ProductCoefficient(f, n, a, b, k, p) ==
    ((IF k < n THEN b * f[k] ELSE 0) + (IF k > 0 THEN a * f[k - 1] ELSE 0)) % p

\* C11: poly_mul_linear(f, a, b, p) on a non-empty f and a, b >= 0 returns the
\* n + 1 coefficients of f(x) * (a*x + b) mod p, each in [0, p), equal entry
\* by entry to poly_multiply_naive(f, [b, a], p), and it reads each entry of
\* f at most twice.
C11_MulLinear ==
    /\ pc \in {"middle", "done"} =>
         \A idx \in 0..(call.n - 1) : linear.reads[idx] <= 2
    /\ pc = "done" =>
         /\ DOMAIN result = 0..call.n
         /\ \A k \in 0..call.n :
              /\ result[k] \in 0..(call.prime - 1)
              /\ result[k] = ProductCoefficient(call.poly, call.n, call.a0, call.b0, k,
                                                call.prime)
         /\ result = poly_multiply_naive(call.poly, call.n,
                                         [idx \in 0..1 |-> IF idx = 0 THEN call.b0 ELSE call.a0],
                                         2, call.prime)

\* C11 witness: a finished product of a list of MaxPolyLen entries, some of
\* them outside [0, p), by a*x + b with a, b not 0 and a outside [0, p).
C11_Witness ==
    /\ pc = "done"
    /\ call.n = MaxPolyLen
    /\ call.a0 >= call.prime
    /\ call.b # 0
    /\ call.a # 0
    /\ \E idx \in 0..(call.n - 1) : call.poly[idx] >= call.prime
    /\ \E idx \in 0..(call.n - 1) : call.poly[idx] < 0
    /\ \A idx \in 0..(call.n - 1) : linear.reads[idx] = 2

(***************************************************************************)
(* The schedule of point operations of the scalar multiplications.         *)
(***************************************************************************)
\* The operations of the main loop of scalar_mult_windowed_cy from window ii down.
RECURSIVE LoopOps2(_, _, _, _)
LoopOps2(ii, k1, k2, wd) ==
    IF ii < 0 THEN <<>> ELSE WindowOps2(ii, k1, k2, wd) \o LoopOps2(ii - 1, k1, k2, wd)

RECURSIVE LoopOps4(_, _, _)
LoopOps4(ii, ks, wd) ==
    IF ii < 0 THEN <<>> ELSE WindowOps4(ii, ks, wd) \o LoopOps4(ii - 1, ks, wd)

\* The greatest scalar of a bit length.
AllOnes(bits) == Pow2(bits) - 1

\* max_bits of the call in progress, before "if max_bits == 0: max_bits = 1".
CallMaxBits ==
    IF call.fn = "scalar_mult_windowed_cy"
    THEN Max(bit_length(call.k[1]), bit_length(call.k[2]))
    ELSE MaxBits4(call.k)

\* C12: the sequence of doublings and additions of scalar_mult_windowed_cy and
\* scalar_mult_4_cy is the same for every value of the scalars, the window
\* width and the scalars' bit length being fixed: a finished run has executed
\* the operations of the run on the greatest scalars of the same bit length.
C12_FixedSchedule ==
    /\ (pc = "done" /\ call.fn = "scalar_mult_windowed_cy") =>
         ops = LoopOps2(NumWindows(CallMaxBits, call.w) - 1,
                        AllOnes(CallMaxBits), AllOnes(CallMaxBits), call.w)
    /\ (pc = "done" /\ call.fn = "scalar_mult_4_cy") =>
         ops = LoopOps4(NumWindows(CallMaxBits, call.w) - 1,
                        <<AllOnes(CallMaxBits), AllOnes(CallMaxBits),
                          AllOnes(CallMaxBits), AllOnes(CallMaxBits)>>, call.w)

\* What does hold: the doublings are the same ones, w per window.
C12_DoublingsFixed ==
    (pc = "done" /\ call.fn \in {"scalar_mult_windowed_cy", "scalar_mult_4_cy"}) =>
      Len(SelectSeq(ops, LAMBDA o : o = "_te_double_mpz"))
        = call.w * NumWindows(CallMaxBits, call.w)

\* A run that skipped an addition: fewer additions than windows.
C12_SkippedAddition ==
    /\ pc = "done"
    /\ call.fn = "scalar_mult_windowed_cy"
    /\ call.k[1] > 0
    /\ Len(SelectSeq(ops, LAMBDA o : o = "_te_add_mpz")) < NumWindows(CallMaxBits, call.w)

(***************************************************************************)
(* The buffers of ntt_in_place (native, with posix_memalign and with       *)
(* malloc) and of vect_add, vect_sub and vect_mul.  Only the control flow  *)
(* that allocates and frees is kept: an allocation succeeds or fails, a    *)
(* conversion of an element succeeds or raises, both chosen freely.  A     *)
(* pointer is a record; free of a pointer that is not live is recorded in  *)
(* heap.bad.                                                               *)
(***************************************************************************)
\* "cdef bls_scalar_t stack_a[256]" and its siblings
StackLimit == 256

StackBuffer(name) == [kind |-> "stack", id |-> 0, role |-> name]

\* malloc / posix_memalign: the heap after the call, and the pointer returned.
malloc(h, role, ok) ==
    IF ok
    THEN [heap |-> [h EXCEPT !.next = @ + 1,
                             !.live = @ \cup {[kind |-> "heap", id |-> h.next, role |-> role]}],
          ptr |-> [kind |-> "heap", id |-> h.next, role |-> role]]
    ELSE [heap |-> h, ptr |-> NULL]

\* free(p)
free(h, p) ==
    IF p.kind = "null" THEN h
    ELSE IF p \in h.live
         THEN [h EXCEPT !.live = @ \ {p}, !.freed = @ \cup {p}]
         ELSE [h EXCEPT !.bad = @ \cup {p}]

\* free of each pointer of a sequence, in order
RECURSIVE FreeAll(_, _)
FreeAll(h, ptrs) == IF ptrs = <<>> THEN h ELSE FreeAll(free(h, Head(ptrs)), Tail(ptrs))

\* "if a_ptr: free(a_ptr)" for each pointer of a sequence
RECURSIVE FreeNonNull(_, _)
FreeNonNull(h, ptrs) ==
    IF ptrs = <<>> THEN h
    ELSE FreeNonNull(IF Head(ptrs) # NULL THEN free(h, Head(ptrs)) ELSE h, Tail(ptrs))

\* The allocations of a sequence of roles, in order; oks[k] tells whether the
\* k-th succeeds.
RECURSIVE MallocAll(_, _, _, _)
MallocAll(h, roles, oks, ptrs) ==
    IF Len(ptrs) = Len(roles) THEN [heap |-> h, ptrs |-> ptrs]
    ELSE MallocAll(malloc(h, roles[Len(ptrs) + 1], oks[Len(ptrs) + 1]).heap, roles, oks,
                   Append(ptrs, malloc(h, roles[Len(ptrs) + 1], oks[Len(ptrs) + 1]).ptr))

\* vect_add and vect_mul use stack buffers for n <= 256; vect_sub always allocates.
HasStackBuffers(fn) == fn \in {"vect_add", "vect_mul"}

\* The pointers a branch of vect_* uses: both lists; a list and a scalar; a
\* scalar and a list (vect_sub only: the others call themselves with the
\* arguments exchanged, which is the branch of a list and a scalar).
BranchPointers(a_list, b_list) ==
    IF a_list /\ b_list THEN <<"a_ptr", "b_ptr", "res_ptr">>
    ELSE IF a_list THEN <<"a_ptr", "res_ptr">>
    ELSE <<"b_ptr", "res_ptr">>

\* A variant of the finally block that frees whatever use_heap says.
VectFinally_always(h, fn, use_heap, ptrs) == FreeAll(h, ptrs)

\* "finally: if use_heap: free(a_ptr) ..." (vect_sub frees without the test).
VectFinally(h, fn, use_heap, ptrs) ==
    IF HasStackBuffers(fn) /\ use_heap = 0 THEN h ELSE FreeAll(h, ptrs)

PointersOf(names) == [k \in 1..Len(names) |-> mem[names[k]]]

VectLens == {0, StackLimit, StackLimit + 1}

\* A call of vect_add, vect_sub or vect_mul up to its try block.
VectEnter(fn, a_list, b_list, n, len_b, oks) ==
    /\ call' = [fn |-> fn, a_list |-> a_list, b_list |-> b_list, n |-> n, len_b |-> len_b]
    /\ IF ~a_list /\ ~b_list
       THEN \* "return NotImplemented"
            /\ pc' = "done"
            /\ result' = "NotImplemented"
            /\ UNCHANGED <<heap, mem>>
       ELSE IF a_list /\ b_list /\ len_b # n
       THEN /\ pc' = "raised"
            /\ result' = "ValueError"
            /\ UNCHANGED <<heap, mem>>
       ELSE IF HasStackBuffers(fn) /\ n <= StackLimit
       THEN /\ pc' = "try"
            /\ result' = <<>>
            /\ mem' = [mem EXCEPT !.use_heap = 0,
                                  !.a_ptr = StackBuffer("stack_a"),
                                  !.b_ptr = IF b_list THEN StackBuffer("stack_b") ELSE @,
                                  !.res_ptr = StackBuffer("stack_res")]
            /\ heap' = heap
       ELSE LET names == BranchPointers(a_list, b_list)
                got == MallocAll(heap, names, oks, <<>>)
                use == IF HasStackBuffers(fn) THEN 1 ELSE 0
                set == [mem EXCEPT !.use_heap = use,
                          !.a_ptr = IF a_list THEN got.ptrs[1] ELSE @,
                          !.b_ptr = IF a_list /\ b_list THEN got.ptrs[2]
                                    ELSE IF ~a_list THEN got.ptrs[1] ELSE @,
                          !.res_ptr = got.ptrs[Len(names)]]
            IN  /\ mem' = set
                /\ IF \E k \in 1..Len(names) : got.ptrs[k] = NULL
                   THEN /\ heap' = FreeNonNull(got.heap, got.ptrs)
                        /\ pc' = "raised"
                        /\ result' = "MemoryError"
                   ELSE /\ heap' = got.heap
                        /\ pc' = "try"
                        /\ result' = <<>>

CallVect ==
    /\ pc = "idle"
    /\ \E fn \in {"vect_add", "vect_sub", "vect_mul"} :
         \E a_list \in BOOLEAN, b_list \in BOOLEAN :
           \E n \in VectLens, len_b \in (IF a_list /\ b_list THEN VectLens ELSE {0}) :
             \E oks \in [1..3 -> BOOLEAN] :
               IF HasStackBuffers(fn) /\ ~a_list /\ b_list
               THEN \* "return vect_add(b, a, prime)"
                    VectEnter(fn, b_list, a_list, n, len_b, oks)
               ELSE VectEnter(fn, a_list, b_list, n, len_b, oks)
    /\ UNCHANGED notMem

\* The try block of vect_*: the conversions, the C batch function, the boxing
\* of the results, and the finally block.
VectTry ==
    /\ pc = "try"
    /\ call.fn \in {"vect_add", "vect_sub", "vect_mul"}
    /\ \E raises \in BOOLEAN :
         /\ pc' = IF raises THEN "raised" ELSE "done"
         /\ result' = IF raises THEN "TypeError" ELSE "res_list"
    /\ heap' = VectFinally(heap, call.fn, mem.use_heap,
                           PointersOf(BranchPointers(call.a_list, call.b_list)))
    /\ UNCHANGED <<call, mem>>
    /\ UNCHANGED notMem

\* ntt_in_place up to its try block: "if n == 1: return", the allocation of coeffs_c.
CallNttAlloc ==
    /\ pc = "idle"
    /\ \E alloc \in {"posix_memalign", "malloc"}, n \in NttSizes, ok \in BOOLEAN :
         /\ call' = [fn |-> "ntt_in_place", alloc |-> alloc, n |-> n]
         /\ IF n = 1
            THEN /\ pc' = "done"
                 /\ UNCHANGED <<heap, mem>>
            ELSE /\ heap' = malloc(heap, "coeffs_c", ok).heap
                 /\ mem' = [mem EXCEPT !.coeffs_c = malloc(heap, "coeffs_c", ok).ptr, !.m = 2]
                 /\ pc' = IF ok THEN "convert" ELSE "raised"
         /\ result' = IF n > 1 /\ ~ok THEN "MemoryError" ELSE <<>>
    /\ UNCHANGED notMem

\* The conversion of the coefficients; when it raises, the outer finally runs.
NttConvert ==
    /\ pc = "convert"
    /\ \E raises \in BOOLEAN :
         IF raises
         THEN /\ heap' = free(heap, mem.coeffs_c)
              /\ pc' = "raised"
              /\ result' = "TypeError"
         ELSE /\ heap' = heap
              /\ pc' = "stage"
              /\ result' = result
    /\ UNCHANGED <<call, mem>>
    /\ UNCHANGED notMem

\* "while m <= n": the allocation of twiddles_c; when it fails, the outer
\* finally runs.
NttStageAlloc ==
    /\ pc = "stage"
    /\ mem.m <= call.n
    /\ \E ok \in BOOLEAN :
         IF ok
         THEN /\ heap' = malloc(heap, "twiddles_c", TRUE).heap
              /\ mem' = [mem EXCEPT !.twiddles_c = malloc(heap, "twiddles_c", TRUE).ptr]
              /\ pc' = "round"
              /\ result' = result
         ELSE /\ heap' = free(heap, mem.coeffs_c)
              /\ mem' = mem
              /\ pc' = "raised"
              /\ result' = "MemoryError"
    /\ UNCHANGED call
    /\ UNCHANGED notMem

\* A variant of the inner finally block that does not free twiddles_c.
RoundFinally_keep(h, twiddles_c) == h

\* "finally: free(twiddles_c)"
RoundFinally(h, twiddles_c) == free(h, twiddles_c)

\* The conversion of the twiddles and bls_scalar_ntt_round, then the inner
\* finally; when the conversion raises, the outer finally runs too.
NttRound ==
    /\ pc = "round"
    /\ \E raises \in BOOLEAN :
         IF raises
         THEN /\ heap' = free(RoundFinally(heap, mem.twiddles_c), mem.coeffs_c)
              /\ mem' = mem
              /\ pc' = "raised"
              /\ result' = "TypeError"
         ELSE /\ heap' = RoundFinally(heap, mem.twiddles_c)
              /\ mem' = [mem EXCEPT !.m = 2 * @]
              /\ pc' = "stage"
              /\ result' = result
    /\ UNCHANGED call
    /\ UNCHANGED notMem

\* The loop is over: the conversion back and the outer finally.
NttReturn ==
    /\ pc = "stage"
    /\ mem.m > call.n
    /\ heap' = free(heap, mem.coeffs_c)
    /\ pc' = "done"
    /\ UNCHANGED <<call, result, mem>>
    /\ UNCHANGED notMem

\* The next call, on the heap the last one left.
NextCall ==
    /\ pc \in {"done", "raised"}
    /\ heap.next <= MaxAllocs
    /\ pc' = "idle"
    /\ call' = [fn |-> "none"]
    /\ result' = <<>>
    /\ mem' = [mem EXCEPT !.use_heap = 0, !.m = 2]
    /\ heap' = heap
    /\ UNCHANGED notMem

InitMem == NoCall /\ CurveIdle /\ ScalarIdle /\ FieldIdle /\ NttIdle /\ PolyIdle /\ MemIdle /\ CiosIdle /\ ListIdle /\ BufIdle /\ SqrtIdle

NextMem ==
    \/ CallVect
    \/ VectTry
    \/ CallNttAlloc
    \/ NttConvert
    \/ NttStageAlloc
    \/ NttRound
    \/ NttReturn
    \/ NextCall

SpecMem == InitMem /\ [][NextMem]_vars

\* C13: every buffer allocated inside a call of ntt_in_place, vect_add,
\* vect_sub or vect_mul is freed exactly once before the call returns or
\* raises: nothing is freed that is not live (no double free, no free of a
\* stack buffer), nothing is live once the call is over, and at most one
\* twiddle buffer is live at a time.
C13_BuffersFreedOnce ==
    /\ heap.bad = {}
    /\ heap.live \cap heap.freed = {}
    /\ Cardinality({b \in heap.live : b.role = "twiddles_c"}) <= 1
    /\ pc \in {"idle", "done", "raised"} =>
         /\ heap.live = {}
         /\ Cardinality(heap.freed) = heap.next - 1

\* C13 witnesses: ntt_in_place raised in a later stage, after a twiddle buffer
\* had been allocated and freed; vect_add returned from its stack buffers;
\* a vect_* call whose second allocation failed.
C13_Witness ==
    /\ pc = "raised"
    /\ call.fn = "ntt_in_place"
    /\ result = "TypeError"
    /\ mem.m > 2
    /\ Cardinality({b \in heap.freed : b.role = "twiddles_c"}) >= 2

C13_WitnessStack ==
    /\ pc = "done"
    /\ call.fn = "vect_add"
    /\ mem.a_ptr.kind = "stack"
    /\ result = "res_list"

C13_WitnessAllocFails ==
    /\ pc = "raised"
    /\ call.fn = "vect_sub"
    /\ result = "MemoryError"
    /\ mem.a_ptr # NULL
    /\ mem.b_ptr = NULL
    /\ heap.freed # {}

(***************************************************************************)
(* Sequences of calls of is_square, sqrt_mod and map_to_curve_ell2_fast in *)
(* one process: _prime_cache keeps what earlier calls have stored.         *)
(***************************************************************************)
PurePrimes == {n \in 3..MaxPureP : IsPrime(n)}

PureIsSquare == IsSquareCall(PurePrimes)

PureSqrtMod == SqrtModCall(PurePrimes)

PureMapToCurve == MapToCurveCall(PurePrimes)

\* The call has returned or raised; the process goes on to its next call.
FieldReturn ==
    /\ pc = "done"
    /\ pc' = "idle"
    /\ call' = [fn |-> "none"]
    /\ result' = <<>>
    /\ UNCHANGED _prime_cache
    /\ UNCHANGED notField

InitPure == NoCall /\ CurveIdle /\ ScalarIdle /\ FieldIdle /\ NttIdle /\ PolyIdle /\ MemIdle /\ CiosIdle /\ ListIdle /\ BufIdle /\ SqrtIdle

NextPure ==
    \/ PureIsSquare
    \/ PureSqrtMod
    \/ PureMapToCurve
    \/ FieldReturn

SpecPure == InitPure /\ [][NextPure]_vars

\* What the finished call returns in a process that has made no call before.
FreshResult ==
    IF call.fn = "is_square" THEN is_square(call.x, call.p, <<>>).ret
    ELSE IF call.fn = "sqrt_mod" THEN sqrt_mod(call.x, call.p, <<>>).ret
    ELSE [f \in {"status", "s", "t"} |->
            map_to_curve_ell2_on(call.u, call.J, call.K, call.Z, call.p, <<>>)[f]]

\* C14: is_square, sqrt_mod and map_to_curve_ell2_fast are pure functions of
\* their arguments: after any sequence of earlier calls with any primes, a call
\* returns what it returns in a fresh process, and every entry of
\* _prime_cache maps a key p to the value p.
C14_PureFunctions ==
    /\ \A k \in DOMAIN _prime_cache : _prime_cache[k] = k
    /\ pc = "done" => result = FreshResult

\* C14 witnesses: a call with a prime that an earlier call has cached, other
\* primes being cached too, that computes a square root on the general path;
\* a map-to-curve call after calls with two other primes.
C14_Witness ==
    /\ pc = "done"
    /\ call.fn = "sqrt_mod"
    /\ call.p % 4 = 1
    /\ result.some
    /\ result.v > 1
    /\ Cardinality(DOMAIN _prime_cache) >= 2

C14_WitnessMap ==
    /\ pc = "done"
    /\ call.fn = "map_to_curve_ell2_fast"
    /\ result.status = "ok"
    /\ result.t # 0
    /\ Cardinality(DOMAIN _prime_cache) >= 3

(***************************************************************************)
(* The IETF VRF over the 2-scalar multiplication.  prove and verify are    *)
(* not part of the source at hand; they are the ones of the specification  *)
(* (4.D): gamma = sk*H, c = challenge(pk, H, gamma, k*G, k*H, ad),         *)
(* s = k + c*sk mod r; verify recomputes U = s*G - c*pk, V = s*H - c*gamma *)
(* with scalar_mult_windowed_cy, called without a window width, and        *)
(* accepts iff c is the challenge of (pk, H, gamma, U, V, ad).  The        *)
(* challenge is a fixed function of the affine coordinates, reduced mod r. *)
(***************************************************************************)
\* "int w = 2" in the signatures of scalar_mult_windowed_cy and scalar_mult_4_cy
DefaultW == 2

\* scalar_mult_windowed_cy called without w.
scalar_mult_windowed_default(k1, k2, P1, P2, a_coeff, d_coeff, p) ==
    scalar_mult_windowed_cy(k1, k2, P1, P2, a_coeff, d_coeff, p, DefaultW)

\* Curves with a subgroup of prime order r generated by G, of cofactor 4.
VrfSuites ==
    { [curve |-> [a |-> 1, d |-> 8, p |-> 19], r |-> 7, G |-> <<2, 9>>],
      [curve |-> [a |-> 1, d |-> 7, p |-> 13], r |-> 5, G |-> <<2, 9>>] }

\* The points of the prime-order group other than the identity, affine.
GroupPoints(su) == { AffMul(n, su.G, su.curve) : n \in 1..(su.r - 1) }

\* A variant of the negation that returns the point.
NegPoint_asis(A, q) == A

\* -(x, y) = (-x, y)
NegPoint(A, q) == <<(q - A[1]) % q, A[2]>>

challenge_generation(pk, H, gamma, U, V, ad, r) ==
    (pk[1] + (2 * pk[2]) + (3 * H[1]) + (4 * H[2]) + (5 * gamma[1]) + (6 * gamma[2])
       + (7 * U[1]) + (8 * U[2]) + (9 * V[1]) + (10 * V[2]) + (11 * ad) + 1) % r

\* prove: the proof (gamma, c, s) for the nonce k.
VrfProof(su, sk, H, k, ad) ==
    [gamma |-> AffMul(sk, H, su.curve),
     c |-> challenge_generation(AffMul(sk, su.G, su.curve), H, AffMul(sk, H, su.curve),
                                AffMul(k, su.G, su.curve), AffMul(k, H, su.curve), ad, su.r),
     s |-> (k + (challenge_generation(AffMul(sk, su.G, su.curve), H,
                                      AffMul(sk, H, su.curve), AffMul(k, su.G, su.curve),
                                      AffMul(k, H, su.curve), ad, su.r) * sk)) % su.r]

\* s*B - c*Q with the 2-scalar multiplication, as an affine point.
VrfCombination(su, s, c, B, Q) ==
    ToAffine(scalar_mult_windowed_default(s, c, Ext(B, 1, su.curve.p),
                                          Ext(NegPoint(Q, su.curve.p), 1, su.curve.p),
                                          su.curve.a, su.curve.d, su.curve.p),
             su.curve.p)

VrfAccepts(su, pk, H, ad, proof, U, V) ==
    proof.c = challenge_generation(pk, H, proof.gamma, U, V, ad, su.r)

VrfProve ==
    /\ pc = "idle"
    /\ \E su \in VrfSuites :
         \E sk \in 1..(su.r - 1), H \in GroupPoints(su), k \in 0..(su.r - 1), ad \in 0..1 :
           /\ call' = [fn |-> "prove", suite |-> su, sk |-> sk, H |-> H, k |-> k, ad |-> ad,
                       pk |-> AffMul(sk, su.G, su.curve)]
           /\ result' = VrfProof(su, sk, H, k, ad)
    /\ pc' = "proved"
    /\ UNCHANGED notVrf

VrfVerify ==
    /\ pc = "proved"
    /\ \E U \in {VrfCombination(call.suite, result.s, result.c, call.suite.G, call.pk)},
          V \in {VrfCombination(call.suite, result.s, result.c, call.H, result.gamma)} :
         /\ call' = [fn |-> "verify", suite |-> call.suite, pk |-> call.pk, H |-> call.H,
                     ad |-> call.ad, proof |-> result, w |-> DefaultW,
                     sk |-> call.sk, k |-> call.k]
         /\ result' = [U |-> U, V |-> V,
                       accept |-> VrfAccepts(call.suite, call.pk, call.H, call.ad, result, U, V)]
    /\ pc' = "done"
    /\ UNCHANGED notVrf

InitVrf == NoCall /\ CurveIdle /\ ScalarIdle /\ FieldIdle /\ NttIdle /\ PolyIdle /\ MemIdle /\ CiosIdle /\ ListIdle /\ BufIdle /\ SqrtIdle

NextVrf ==
    \/ VrfProve
    \/ VrfVerify

SpecVrf == InitVrf /\ [][NextVrf]_vars

\* C15: IETF VRF completeness.  For every secret key sk, input point H and
\* nonce k in the group of prime order r, verification of the proof that
\* prove makes recomputes U = s*G - c*pk = k*G and V = s*H - c*gamma = k*H
\* with the 2-scalar multiplication, and accepts.
C15_VrfCompleteness ==
    (pc = "done" /\ call.fn = "verify") =>
        /\ result.U = AffMul(call.k, call.suite.G, call.suite.curve)
        /\ result.V = AffMul(call.k, call.H, call.suite.curve)
        /\ result.accept

\* C15 witness: an accepted proof with c, s and k other than 0, H other than
\* G, and U other than s*G.
C15_Witness ==
    /\ pc = "done"
    /\ call.fn = "verify"
    /\ result.accept
    /\ call.proof.c # 0
    /\ call.proof.s # 0
    /\ call.k # 0
    /\ call.H # call.suite.G
    /\ result.U # AffMul(call.proof.s, call.suite.G, call.suite.curve)

\* C16: the windowed scalar multiplication uses window width 4 when the
\* caller does not pass one.
C16_DefaultWindowIsFour ==
    (pc = "done" /\ call.fn = "verify") => call.w = 4

\* A multiplication that ran without a window width being passed.
C16_DefaultWindowUsed ==
    /\ pc = "done"
    /\ call.fn = "verify"
    /\ call.w = 2
    /\ result.accept

(***************************************************************************)
(* bls_scalar_mul_mont round by round, on objects in memory.  out, a and b *)
(* are pointers to the objects x, y, z and may point to the same object;   *)
(* each round reads a->val and b->val[i] from memory, r is local, and out  *)
(* is written after the final subtraction.                                 *)
(***************************************************************************)
\* The four limbs of an integer below R.
ValueLimbs(v) ==
    <<v % LimbBase, (v \div LimbBase) % LimbBase,
      (v \div (LimbBase * LimbBase)) % LimbBase,
      (v \div (LimbBase * LimbBase * LimbBase)) % LimbBase>>

\* The integer the five limbs of r encode.
Limbs5Value(r) == LimbsValue(<<r[1], r[2], r[3], r[4]>>) + (MontR * r[5])

\* The pointers of a call: out, a, b.
CiosPointers ==
    { <<"z", "x", "y">>, <<"x", "x", "y">>, <<"y", "x", "y">>, <<"x", "x", "x">> }

\* The values of the objects: every pair below P when out points to a third
\* object, every value with the values of SomeInputs otherwise.
CiosValues(ptrs) ==
    IF ptrs[1] = "z" THEN (0..(Modulus - 1)) \X (0..(Modulus - 1))
    ELSE (0..(Modulus - 1)) \X {v \in SomeInputs : v >= 0 /\ v < Modulus}

\* "uint64_t r[5] = {0}"
CiosCall ==
    /\ pc = "idle"
    /\ \E ptrs \in CiosPointers :
         \E vs \in CiosValues(ptrs) :
           /\ cells' = [cells EXCEPT !["x"] = ValueLimbs(vs[1]), !["y"] = ValueLimbs(vs[2])]
           /\ call' = [fn |-> "bls_scalar_mul_mont", out |-> ptrs[1], a |-> ptrs[2],
                       b |-> ptrs[3], vx |-> vs[1], vy |-> vs[2], va |-> vs[1],
                       vb |-> IF ptrs[3] = "x" THEN vs[1] ELSE vs[2]]
    /\ cios' = [cios EXCEPT !.round = 1]
    /\ pc' = "rounds"
    /\ UNCHANGED result
    /\ UNCHANGED notCios

\* The round i = cios.round - 1 of the unrolled loop.
CiosStep ==
    /\ pc = "rounds"
    /\ cios.round <= 4
    /\ cios' = [round |-> cios.round + 1,
                before |-> cios.r,
                mac |-> MacRow(cios.r, cells[call.a], cells[call.b][cios.round]),
                m |-> U64(MacRow(cios.r, cells[call.a], cells[call.b][cios.round])[1]
                            * BLS_SCALAR_INV),
                r |-> CiosRound(cios.r, cells[call.a], cells[call.b][cios.round])]
    /\ UNCHANGED <<pc, call, result, cells>>
    /\ UNCHANGED notCios

\* The final subtraction and the four stores to out->val.
CiosFinish ==
    /\ pc = "rounds"
    /\ cios.round > 4
    /\ cells' = [cells EXCEPT ![call.out] = FinalSubtraction(cios.r)]
    /\ result' = FinalSubtraction(cios.r)
    /\ pc' = "done"
    /\ UNCHANGED <<call, cios>>
    /\ UNCHANGED notCios

InitCios ==
    NoCall /\ CurveIdle /\ ScalarIdle /\ FieldIdle /\ NttIdle /\ PolyIdle /\ MemIdle /\ CiosIdle /\ ListIdle /\ BufIdle /\ SqrtIdle

NextCios ==
    \/ CiosCall
    \/ CiosStep
    \/ CiosFinish

SpecCios == InitCios /\ [][NextCios]_vars

\* C17: for all a, b < P, bls_scalar_mul_mont returns a*b*R^-1 mod P below P,
\* also when out points to the object a or b points to; in every round
\* m = r[0] * BLS_SCALAR_INV makes the low limb of r + m*P zero, the value
\* after the round is (r + m*P) / 2^64, below 2P, so r[4] is 0, and the
\* truncated addition r[4] + u loses no carry: after the first loop r holds
\* the whole of r + a*b[i].
C17_MontgomeryMultiplication ==
    /\ (pc = "rounds" /\ cios.round > 1) =>
         /\ Limbs5Value(cios.mac)
              = Limbs5Value(cios.before)
                  + (LimbsValue(ValueLimbs(call.va)) * ValueLimbs(call.vb)[cios.round - 1])
         /\ cios.m = U64(cios.mac[1] * BLS_SCALAR_INV)
         /\ U64(cios.mac[1] + (cios.m * BLS_SCALAR_MODULUS[1])) = 0
         /\ Limbs5Value(cios.r) * LimbBase = Limbs5Value(cios.mac) + (cios.m * Modulus)
         /\ Limbs5Value(cios.r) < 2 * Modulus
         /\ cios.r[5] = 0
    /\ pc = "done" =>
         /\ LimbsValue(cells[call.out]) < Modulus
         /\ (LimbsValue(cells[call.out]) * MontR) % Modulus = (call.va * call.vb) % Modulus
         /\ \A c \in {"x", "y", "z"} \ {call.out} :
              cells[c] = (IF c = "x" THEN ValueLimbs(call.vx)
                          ELSE IF c = "y" THEN ValueLimbs(call.vy) ELSE <<0, 0, 0, 0>>)

\* C17 witnesses: a product written over a, with a carry out of the first
\* loop in a round after the first and the final subtraction taken; a
\* square written over its operand.
C17_Witness ==
    /\ pc = "done"
    /\ call.out = call.a
    /\ call.b # call.a
    /\ cios.mac[5] # 0
    /\ LimbsValue(cells[call.out]) # LimbsValue(<<cios.r[1], cios.r[2], cios.r[3], cios.r[4]>>)
    /\ call.va > LimbBase
    /\ call.vb > LimbBase

C17_WitnessSquare ==
    /\ pc = "done"
    /\ call.out = "x"
    /\ call.b = "x"
    /\ call.va > 1
    /\ cells["x"] # ValueLimbs(call.va)

(***************************************************************************)
(* The transform ntt_in_place computes, and the two versions compared.     *)
(***************************************************************************)
\* sum over j = from..n-1 of f[j] * w^(idx*j), modulo p
RECURSIVE DftSum(_, _, _, _, _, _)
DftSum(f, w, idx, j, n, p) ==
    IF j >= n THEN 0
    ELSE ((f[j] * _powmod(w, idx * j, p)) + DftSum(f, w, idx, j + 1, n, p)) % p

\* The integers the transform holds: coeffs in the gmpy2 version, the values
\* of the Montgomery forms in coeffs_c in the native version.
Held_coeffs(c, c_c, n) ==
    IF call.impl = "gmpy2" THEN c ELSE [idx \in 0..(n - 1) |-> to_int(c_c[idx])]

\* A stage has replaced every pair u = coeffs[k + j], v = coeffs[k + j + half_m]
\* by u + w*v and u - w*v, w = twiddles[stage][j], computed from the values
\* held before the stage (each entry belongs to one butterfly of a stage).
StageButterflies ==
    (pc = "stages" /\ pc' = "stages") =>
        \A idx \in 0..(call.n - 1) :
            LET half_m == ntt.m \div 2
                j == idx % ntt.m
                w == call.twiddles[ntt.stage][j % half_m]
                before == Held_coeffs(coeffs, coeffs_c, call.n)
                after == Held_coeffs(coeffs', coeffs_c', call.n)
            IN  IF j < half_m
                THEN after[idx] = (before[idx] + (w * before[idx + half_m])) % call.prime
                ELSE after[idx] = (before[idx - half_m] - (w * before[idx])) % call.prime

\* The list a finished call leaves is the transform of its input.
DftResult ==
    (pc = "done" /\ call.fn = "ntt_in_place") =>
        \A idx \in 0..(call.n - 1) :
            coeffs[idx] = DftSum(call.input, call.w, idx, 0, call.n, call.prime)

\* C18: with rev the bit-reversal permutation and twiddles[s][j] =
\* w^(j*n/2^(s+1)) for a primitive n-th root of unity w, ntt_in_place leaves
\* coeffs[i] = sum over j of f[j]*w^(i*j) mod p; each butterfly of each stage
\* computes u' = u + w*v and v' = u - w*v from the values held before it.
C18_NttIsDft == []DftResult /\ [][StageButterflies]_vars

\* C18 witness: a finished forward transform of the native version on the
\* longest list, with an input that is not constant and an output that
\* differs from it.
C18_Witness ==
    /\ pc = "done"
    /\ call.fn = "ntt_in_place"
    /\ call.impl = "native"
    /\ call.dir = "forward"
    /\ call.n = Pow2(MaxLogN)
    /\ call.input[1] # call.input[0]
    /\ coeffs # call.input

\* What the gmpy2 version holds when the stages from..upto-1 have run.
RECURSIVE StagesDone(_, _, _, _, _, _)
StagesDone(c, twiddles, from, upto, n, p) ==
    IF from >= upto THEN c
    ELSE StagesDone(NttBlocks(c, twiddles[from], 0, Pow2(from + 1), n, p), twiddles,
                    from + 1, upto, n, p)

\* C19: for the scalar modulus and the same coeffs, twiddles and rev, the gmpy2
\* version and the native version leave the same list of integers; in the
\* native version the list coeffs is not touched between entry and exit and
\* coeffs_c holds, in Montgomery form, what the gmpy2 version holds at the
\* same stage.
C19_VersionsAgree ==
    /\ (pc = "done" /\ call.fn = "ntt_in_place" /\ call.prime = Modulus) =>
         /\ coeffs = ntt_in_place_gmpy2(call.input, call.twiddles, call.rev, call.prime, call.n)
         /\ coeffs = ntt_in_place_native(call.input, call.twiddles, call.rev, call.prime, call.n)
    /\ (pc = "stages" /\ call.impl = "native") =>
         /\ coeffs = call.input
         /\ \A idx \in 0..(call.n - 1) :
              /\ LimbsValue(coeffs_c[idx]) < Modulus
              /\ (LimbsValue(bls_scalar_from_mont(coeffs_c[idx])) * MontR) % Modulus
                   = LimbsValue(coeffs_c[idx])
              /\ to_int(coeffs_c[idx])
                   = StagesDone(BitReversePermutation(call.input, call.rev, call.n),
                                call.twiddles, 0, ntt.stage, call.n, call.prime)[idx]

\* C19 witnesses: a finished call of each version on the scalar modulus and
\* the longest list, with an output other than the input.
C19_Witness ==
    /\ pc = "done"
    /\ call.fn = "ntt_in_place"
    /\ call.impl = "native"
    /\ call.n = Pow2(MaxLogN)
    /\ coeffs # call.input
    /\ \E idx \in 0..(call.n - 1) : coeffs[idx] >= LimbBase * LimbBase

C19_WitnessGmpy2 ==
    /\ pc = "done"
    /\ call.fn = "ntt_in_place"
    /\ call.impl = "gmpy2"
    /\ call.prime = Modulus
    /\ call.n = Pow2(MaxLogN)
    /\ coeffs # call.input

(***************************************************************************)
(* The table and the accumulator of the windowed multiplications.          *)
(***************************************************************************)
\* The multiples 0*A, 1*A, ..., (size - 1)*A of an affine point, each from the
\* one before by one addition.
RECURSIVE AffMultiples(_, _, _, _)
AffMultiples(ms, size, A, cv) ==
    IF Len(ms) >= size THEN ms
    ELSE AffMultiples(Append(ms, AffAdd(ms[Len(ms)], A, cv)), size, A, cv)

TableEntries(table, M1, M2, size, cv) ==
    \A ta \in 0..(size - 1), tb \in 0..(size - 1) :
        Represents(table[ta][tb], AffAdd(M1[ta + 1], M2[tb + 1], cv), cv.p)

\* table[a][b] stands for a*P1 + b*P2 for all 0 <= a, b < 2^w, and table[0][0]
\* is the identity.
TableHolds(table, P1, P2, wd, cv) ==
    /\ DOMAIN table = 0..(Pow2(wd) - 1)
    /\ table[0][0] = identity
    /\ TableEntries(table,
                    AffMultiples(<<<<0, 1>>>>, Pow2(wd), ToAffine(P1, cv.p), cv),
                    AffMultiples(<<<<0, 1>>>>, Pow2(wd), ToAffine(P2, cv.p), cv),
                    Pow2(wd), cv)

\* The accumulator when the iterations for the windows above done_to have run:
\* floor(k1 / 2^(done_to*w))*P1 + floor(k2 / 2^(done_to*w))*P2.
AccumulatorHolds(acc, done_to, k1, k2, P1, P2, wd, cv) ==
    Represents(acc,
               AffAdd(AffMul(k1 \div Pow2(done_to * wd), ToAffine(P1, cv.p), cv),
                      AffMul(k2 \div Pow2(done_to * wd), ToAffine(P2, cv.p), cv), cv),
               cv.p)

\* The calls on which the tables and the accumulator are followed: every call
\* of scalar_mult_windowed_cy, and scalar_mult_4_cy with every point and width
\* and the scalars 0 and MaxK4 (its tables do not depend on the scalars).
FourTables == CallFourOn({0, MaxK4})

InitTable == NoCall /\ CurveIdle /\ ScalarIdle /\ FieldIdle /\ NttIdle /\ PolyIdle /\ MemIdle /\ CiosIdle /\ ListIdle /\ BufIdle /\ SqrtIdle

NextTable ==
    \/ CallWindowed
    \/ FourTables
    \/ WindowIter2
    \/ WindowIter4
    \/ ReturnR

SpecTable == InitTable /\ [][NextTable]_vars

C20_WitnessFour ==
    /\ pc = "loop"
    /\ call.fn = "scalar_mult_4_cy"
    /\ Complete(call.curve)
    /\ call.w = 2
    /\ table12 # table34
    /\ ToAffine(call.P[1], call.curve.p) # ToAffine(call.P[2], call.curve.p)

(***************************************************************************)
(* The curve functions on arbitrary integer tuples.                        *)
(***************************************************************************)
\* Coordinates of the arguments: negative, zero, small and above the modulus.
AnyCoords(p) == {-1, 0, 2, p + 1}

\* Every tuple over these coordinates; most do not satisfy T*Z = X*Y, and
\* some have Z = 0.
AnyTuples(p) == AnyCoords(p) \X AnyCoords(p) \X AnyCoords(p) \X AnyCoords(p)

\* The tuples given to the windowed multiplications as P1: none satisfies the
\* relation.
LoosePoints1(cv) == { <<1, 1, 1, 0>>, <<2, 3, 0, 5>>, <<-1, cv.p + 1, 2, 2>> }

\* and as P2: one point of the curve and one tuple that is not.
LoosePoints2(cv) == { <<0, cv.p - 1, 1, 0>>, <<3, 0, 2, 1>> }

LoosePointPairs(cv) == { <<P1, P2>> : P1 \in LoosePoints1(cv), P2 \in LoosePoints2(cv) }

LooseTeAdd ==
    /\ pc = "idle"
    /\ \E cv \in Curves :
         \E P1 \in AnyTuples(cv.p), P2 \in AnyTuples(cv.p) :
           /\ call' = [fn |-> "te_add_cy", P1 |-> P1, P2 |-> P2, curve |-> cv]
           /\ result' = te_add_cy(P1, P2, cv.a, cv.d, cv.p)
    /\ pc' = "done"
    /\ UNCHANGED curveVars
    /\ UNCHANGED notCurve

LooseTeDouble ==
    /\ pc = "idle"
    /\ \E cv \in Curves :
         \E P1 \in AnyTuples(cv.p) :
           /\ call' = [fn |-> "te_double_cy", P1 |-> P1, curve |-> cv]
           /\ result' = te_double_cy(P1, cv.a, cv.p)
    /\ pc' = "done"
    /\ UNCHANGED curveVars
    /\ UNCHANGED notCurve

LooseWindowed == CallWindowedWith(LoosePoints1, LoosePoints2)

LooseFour == CallFourWith(LoosePointPairs, {0, 1, MaxK4})

InitLoose == NoCall /\ CurveIdle /\ ScalarIdle /\ FieldIdle /\ NttIdle /\ PolyIdle /\ MemIdle /\ CiosIdle /\ ListIdle /\ BufIdle /\ SqrtIdle

NextLoose ==
    \/ LooseTeAdd
    \/ LooseTeDouble
    \/ LooseWindowed
    \/ LooseFour
    \/ WindowIter2
    \/ WindowIter4
    \/ ReturnR

SpecLoose == InitLoose /\ [][NextLoose]_vars

\* X*Y = T*Z (mod p)
ExtendedRelation(P, p) == (P[1] * P[2]) % p = (P[4] * P[3]) % p

Reduced4(P, p) == \A n \in 1..4 : P[n] \in 0..(p - 1)

CurveFunctions == {"te_add_cy", "te_double_cy", "scalar_mult_windowed_cy", "scalar_mult_4_cy"}

\* C21: every point returned by te_add_cy, te_double_cy,
\* scalar_mult_windowed_cy and scalar_mult_4_cy satisfies X*Y = T*Z (mod p)
\* with all four coordinates in [0, p), whatever the arguments are, those that
\* do not satisfy the relation included.
C21_ExtendedRelation ==
    (pc = "done" /\ call.fn \in CurveFunctions) =>
        /\ ExtendedRelation(result, call.curve.p)
        /\ Reduced4(result, call.curve.p)

\* C21 witnesses: te_add_cy returns a tuple with no zero coordinate from two
\* arguments that both break the relation, one with a negative and one with
\* an unreduced coordinate;
C21_Witness ==
    /\ pc = "done"
    /\ call.fn = "te_add_cy"
    /\ ~ExtendedRelation(call.P1, call.curve.p)
    /\ ~ExtendedRelation(call.P2, call.curve.p)
    /\ call.P1[1] < 0
    /\ call.P2[2] > call.curve.p
    /\ \A n \in 1..4 : result[n] # 0

\* scalar_mult_windowed_cy does the same from two tuples that break the
\* relation, with both scalars non-zero;
C21_WitnessWindowed ==
    /\ pc = "done"
    /\ call.fn = "scalar_mult_windowed_cy"
    /\ ~ExtendedRelation(call.P[1], call.curve.p)
    /\ ~ExtendedRelation(call.P[2], call.curve.p)
    /\ call.k[1] # 0
    /\ call.k[2] # 0
    /\ \A n \in 1..4 : result[n] # 0

\* and so do te_double_cy and scalar_mult_4_cy.
C21_WitnessDouble ==
    /\ pc = "done"
    /\ call.fn = "te_double_cy"
    /\ ~ExtendedRelation(call.P1, call.curve.p)
    /\ \A n \in 1..4 : result[n] # 0

C21_WitnessFour ==
    /\ pc = "done"
    /\ call.fn = "scalar_mult_4_cy"
    /\ ~ExtendedRelation(call.P[1], call.curve.p)
    /\ \A n \in 1..4 : call.k[n] # 0
    /\ \A n \in 1..4 : result[n] # 0

(***************************************************************************)
(* Doubling against the addition of a point to itself.                     *)
(***************************************************************************)
\* Z # 0, T*Z = X*Y, and the affine point (X/Z, Y/Z) is on the curve.
OnCurve(P, cv) ==
    /\ P[3] % cv.p # 0
    /\ ExtendedRelation(P, cv.p)
    /\ OnCurveAffine(ToAffine(P, cv.p)[1], ToAffine(P, cv.p)[2], cv)

\* Two results stand for the same point: the same affine point under
\* projective_to_affine_cy, Z = 0 in both or in neither, and projectively
\* equal when Z # 0.
SamePoint(D, S, q) ==
    /\ projective_to_affine_cy(D[1], D[2], D[3], q) = projective_to_affine_cy(S[1], S[2], S[3], q)
    /\ (D[3] = 0) <=> (S[3] = 0)
    /\ (D[3] # 0) => ProjEqual(D, S, q)

\* C22: for every point P with Z # 0 and T*Z = X*Y on the curve,
\* te_double_cy(P) and te_add_cy(P, P) are projectively equal: they convert to
\* the same affine point with projective_to_affine_cy.
C22_DoubleIsAddToItself ==
    /\ (Returned("te_add_cy") /\ call.P1 = call.P2 /\ OnCurve(call.P1, call.curve)) =>
          SamePoint(te_double_cy(call.P1, call.curve.a, call.curve.p), result, call.curve.p)
    /\ (Returned("te_double_cy") /\ OnCurve(call.P1, call.curve)) =>
          SamePoint(result,
                    te_add_cy(call.P1, call.P1, call.curve.a, call.curve.d, call.curve.p),
                    call.curve.p)

\* C22 witnesses: a point of the curve with Z # 1, neither coordinate zero,
\* added to itself, the sum with Z # 0 and not the point itself;
C22_Witness ==
    /\ Returned("te_add_cy")
    /\ call.P1 = call.P2
    /\ OnCurve(call.P1, call.curve)
    /\ call.P1[3] # 1
    /\ call.P1[1] # 0
    /\ call.P1[2] # 0
    /\ result[3] # 0
    /\ result # te_double_cy(call.P1, call.curve.a, call.curve.p)
    /\ ~ProjEqual(result, call.P1, call.curve.p)

\* the same point doubled;
C22_WitnessDouble ==
    /\ Returned("te_double_cy")
    /\ OnCurve(call.P1, call.curve)
    /\ call.P1[3] # 1
    /\ call.P1[1] # 0
    /\ result[3] # 0
    /\ ~ProjEqual(result, call.P1, call.curve.p)

\* and, on the curve whose addition law is not complete, a point whose double
\* has Z = 0.
C22_WitnessZ0 ==
    /\ Returned("te_double_cy")
    /\ OnCurve(call.P1, call.curve)
    /\ ~Complete(call.curve)
    /\ result[3] = 0

(***************************************************************************)
(* poly_add and poly_subtract.  The list objects passed are kept in args,  *)
(* the list returned in result.                                            *)
(***************************************************************************)
\* "result = [0] * result_len; for i in range(len1): result[i] = poly1[i]"
CopyFirst(poly1, len1, result_len) ==
    [idx \in 0..(result_len - 1) |-> IF idx < len1 THEN poly1[idx] ELSE 0]

\* "val = result[i] + poly2[i]; if val >= prime: val -= prime"
AddEntry(val1, val2, prime) ==
    IF val1 + val2 >= prime THEN (val1 + val2) - prime ELSE val1 + val2

\* A variant of the subtraction without the branch.
SubtractEntry_noBranch(val1, val2, prime) == val1 - val2

\* "if val1 >= val2: result[i] = val1 - val2 else: result[i] = prime - (val2 - val1)"
SubtractEntry(val1, val2, prime) ==
    IF val1 >= val2 THEN val1 - val2 ELSE prime - (val2 - val1)

poly_add(poly1, len1, poly2, len2, prime) ==
    [idx \in 0..(Max(len1, len2) - 1) |->
        IF idx < len2
        THEN AddEntry(CopyFirst(poly1, len1, Max(len1, len2))[idx], poly2[idx], prime)
        ELSE CopyFirst(poly1, len1, Max(len1, len2))[idx]]

poly_subtract(poly1, len1, poly2, len2, prime) ==
    [idx \in 0..(Max(len1, len2) - 1) |->
        IF idx < len2
        THEN SubtractEntry(CopyFirst(poly1, len1, Max(len1, len2))[idx], poly2[idx], prime)
        ELSE CopyFirst(poly1, len1, Max(len1, len2))[idx]]

\* Reduced coefficients: the least two and the greatest two of [0, p).
ReducedValues(p) == {0, 1, p - 2, p - 1}

\* The lists of 0..MaxPolyLen reduced coefficients.
ReducedLists(p) == UNION { [0..(n - 1) -> ReducedValues(p)] : n \in 0..MaxPolyLen }

ListLen(f) == Cardinality(DOMAIN f)

CallPolyAdd ==
    /\ pc = "idle"
    /\ \E p \in PolyPrimes : \E f \in ReducedLists(p), g \in ReducedLists(p) :
         /\ call' = [fn |-> "poly_add", poly1 |-> f, poly2 |-> g, prime |-> p]
         /\ args' = [poly1 |-> f, poly2 |-> g]
         /\ result' = poly_add(f, ListLen(f), g, ListLen(g), p)
    /\ pc' = "done"
    /\ UNCHANGED linear
    /\ UNCHANGED notPolyArgs

CallPolySubtract ==
    /\ pc = "idle"
    /\ \E p \in PolyPrimes : \E f \in ReducedLists(p), g \in ReducedLists(p) :
         /\ call' = [fn |-> "poly_subtract", poly1 |-> f, poly2 |-> g, prime |-> p]
         /\ args' = [poly1 |-> f, poly2 |-> g]
         /\ result' = poly_subtract(f, ListLen(f), g, ListLen(g), p)
    /\ pc' = "done"
    /\ UNCHANGED linear
    /\ UNCHANGED notPolyArgs

InitPolyAdd == NoCall /\ CurveIdle /\ ScalarIdle /\ FieldIdle /\ NttIdle /\ PolyIdle /\ MemIdle /\ CiosIdle /\ ListIdle /\ BufIdle /\ SqrtIdle

NextPolyAdd ==
    \/ CallPolyAdd
    \/ CallPolySubtract

SpecPolyAdd == InitPolyAdd /\ [][NextPolyAdd]_vars

\* The entry of index idx of a list, 0 when the list is shorter.
EntryOrZero(f, idx) == IF idx \in DOMAIN f THEN f[idx] ELSE 0

\* C23: for lists f, g with every entry in [0, p), poly_add and poly_subtract
\* return a list of length max(len f, len g) whose entry i is (f_i + g_i) mod p,
\* resp. (f_i - g_i) mod p, missing entries taken as 0; every entry of the
\* result is in [0, p), and neither argument list is modified.
C23_AddAndSubtract ==
    (pc = "done" /\ call.fn \in {"poly_add", "poly_subtract"}) =>
        /\ DOMAIN result = 0..(Max(ListLen(call.poly1), ListLen(call.poly2)) - 1)
        /\ \A idx \in DOMAIN result :
             /\ result[idx] \in 0..(call.prime - 1)
             /\ result[idx] =
                  IF call.fn = "poly_add"
                  THEN (EntryOrZero(call.poly1, idx) + EntryOrZero(call.poly2, idx)) % call.prime
                  ELSE (EntryOrZero(call.poly1, idx) - EntryOrZero(call.poly2, idx)) % call.prime
        /\ args.poly1 = call.poly1
        /\ args.poly2 = call.poly2

\* C23 witnesses: a difference with a shorter first list, an entry that wraps
\* below 0 and an entry of g alone that is not 0;
C23_Witness ==
    /\ pc = "done"
    /\ call.fn = "poly_subtract"
    /\ ListLen(call.poly1) = 2
    /\ ListLen(call.poly2) = MaxPolyLen
    /\ call.poly1[0] < call.poly2[0]
    /\ call.poly1[1] > call.poly2[1]
    /\ call.poly2[MaxPolyLen - 1] # 0
    /\ result # call.poly1
    /\ result # call.poly2

\* a sum with a longer first list and an entry that reaches the prime.
C23_WitnessAdd ==
    /\ pc = "done"
    /\ call.fn = "poly_add"
    /\ ListLen(call.poly1) = MaxPolyLen
    /\ ListLen(call.poly2) = 2
    /\ call.poly1[0] + call.poly2[0] = call.prime
    /\ call.poly1[1] + call.poly2[1] > call.prime
    /\ call.poly1[MaxPolyLen - 1] # 0

(***************************************************************************)
(* poly_evaluate_single, poly_eval_domain and the product of               *)
(* poly_multiply_naive.                                                    *)
(***************************************************************************)
\* A variant of the Horner step that adds before it multiplies.
HornerStep_addFirst(acc, x, coef, prime) == ((acc + coef) * x) % prime

\* "result = (result * x + coef) % prime"
HornerStep(acc, x, coef, prime) == ((acc * x) + coef) % prime

\* "for i in range(n - 1, -1, -1)" with coef the normalized poly[i]
RECURSIVE HornerLoop(_, _, _, _, _)
HornerLoop(acc, poly, idx, x, prime) ==
    IF idx < 0 THEN acc
    ELSE HornerLoop(HornerStep(acc, x, Normalize(poly[idx], prime), prime),
                    poly, idx - 1, x, prime)

poly_evaluate_single(poly, x, prime) ==
    HornerLoop(0, poly, ListLen(poly) - 1, Normalize(x, prime), prime)

\* "result[i] = poly_evaluate_single(poly, x, prime)" with x the normalized domain[i]
poly_eval_domain(poly, domain, prime) ==
    [idx \in DOMAIN domain |-> poly_evaluate_single(poly, Normalize(domain[idx], prime), prime)]

\* Coefficients below 0, zero, in range, and the prime itself (zero, unreduced).
EvalValues(p) == {-1, 0, 2, p}

\* Points below the prime, the prime and above it.
EvalPoints(p) == {0, 1, 2, p, p + 2}

EvalLists(p, maxlen) == UNION { [0..(n - 1) -> EvalValues(p)] : n \in 1..maxlen }

EvalDomains(p) == UNION { [0..(n - 1) -> {1, p - 1, p + 2}] : n \in 0..2 }

\* poly_multiply_naive(f, g, prime); the product is held for the evaluation.
CallMultiplyNaive ==
    /\ pc = "idle"
    /\ \E p \in PolyPrimes : \E f \in EvalLists(p, MaxPolyLen), g \in EvalLists(p, 2) :
         /\ call' = [fn |-> "poly_multiply_naive", poly1 |-> f, poly2 |-> g, prime |-> p]
         /\ args' = [poly1 |-> f, poly2 |-> g]
         /\ result' = poly_multiply_naive(f, ListLen(f), g, ListLen(g), p)
    /\ pc' = "multiplied"
    /\ UNCHANGED linear
    /\ UNCHANGED notPolyArgs

\* poly_evaluate_single(product, x, prime) on the product just returned.
EvaluateProduct ==
    /\ pc = "multiplied"
    /\ \E x \in EvalPoints(call.prime) :
         /\ call' = [fn |-> "poly_evaluate_single", poly |-> result, x |-> x,
                     factors |-> <<call.poly1, call.poly2>>, prime |-> call.prime]
         /\ args' = [poly |-> result]
         /\ result' = poly_evaluate_single(result, x, call.prime)
    /\ pc' = "done"
    /\ UNCHANGED linear
    /\ UNCHANGED notPolyArgs

\* poly_eval_domain(f, domain, prime)
CallEvalDomain ==
    /\ pc = "idle"
    /\ \E p \in PolyPrimes : \E f \in EvalLists(p, MaxPolyLen), D \in EvalDomains(p) :
         /\ call' = [fn |-> "poly_eval_domain", poly |-> f, domain |-> D, prime |-> p]
         /\ args' = [poly |-> f, domain |-> D]
         /\ result' = poly_eval_domain(f, D, p)
    /\ pc' = "done"
    /\ UNCHANGED linear
    /\ UNCHANGED notPolyArgs

InitPolyEval == NoCall /\ CurveIdle /\ ScalarIdle /\ FieldIdle /\ NttIdle /\ PolyIdle /\ MemIdle /\ CiosIdle /\ ListIdle /\ BufIdle /\ SqrtIdle

NextPolyEval ==
    \/ CallMultiplyNaive
    \/ EvaluateProduct
    \/ CallEvalDomain

SpecPolyEval == InitPolyEval /\ [][NextPolyEval]_vars

\* sum of f_i * x^i over i = idx..len-1, modulo p
RECURSIVE PowerSum(_, _, _, _)
PowerSum(f, x, idx, p) ==
    IF idx >= ListLen(f) THEN 0
    ELSE ((f[idx] * _powmod(x % p, idx, p)) + PowerSum(f, x, idx + 1, p)) % p

\* The coefficient of x^k of f*g: sum of f_i * g_(k-i) over i = idx..k, modulo p.
RECURSIVE ConvolutionSum(_, _, _, _, _)
ConvolutionSum(f, g, k, idx, p) ==
    IF idx > k THEN 0
    ELSE ((EntryOrZero(f, idx) * EntryOrZero(g, k - idx)) + ConvolutionSum(f, g, k, idx + 1, p)) % p

\* C24: for non-empty lists f, g and x >= 0, the product of poly_multiply_naive
\* evaluates to poly_evaluate_single(f, x) * poly_evaluate_single(g, x) mod p;
\* poly_evaluate_single(f, x, p) is the sum of f_i * x^i mod p, also for
\* unreduced x and coefficients; poly_eval_domain(f, D, p)[i] is
\* poly_evaluate_single(f, D[i], p); the product, which skips the zero
\* coefficients, has the coefficients of f*g.
C24_EvaluationOfProduct ==
    /\ (pc = "multiplied") =>
         /\ DOMAIN result = 0..(ListLen(call.poly1) + ListLen(call.poly2) - 2)
         /\ \A k \in DOMAIN result : result[k] = ConvolutionSum(call.poly1, call.poly2, k, 0, call.prime)
    /\ (pc = "done" /\ call.fn = "poly_evaluate_single") =>
         /\ result = PowerSum(call.poly, call.x, 0, call.prime)
         /\ result = (poly_evaluate_single(call.factors[1], call.x, call.prime)
                        * poly_evaluate_single(call.factors[2], call.x, call.prime)) % call.prime
         /\ \A n \in 1..2 :
              poly_evaluate_single(call.factors[n], call.x, call.prime)
                = PowerSum(call.factors[n], call.x, 0, call.prime)
    /\ (pc = "done" /\ call.fn = "poly_eval_domain") =>
         /\ DOMAIN result = DOMAIN call.domain
         /\ \A idx \in DOMAIN result :
              /\ result[idx] = poly_evaluate_single(call.poly, call.domain[idx], call.prime)
              /\ result[idx] = PowerSum(call.poly, call.domain[idx], 0, call.prime)

\* C24 witnesses: the product of a list of MaxPolyLen entries by one of two,
\* with coefficients that are zero only after reduction (skipped) and negative
\* ones, evaluated at a point above the prime to a value that is not 0;
C24_Witness ==
    /\ pc = "done"
    /\ call.fn = "poly_evaluate_single"
    /\ ListLen(call.factors[1]) = MaxPolyLen
    /\ ListLen(call.factors[2]) = 2
    /\ \E idx \in DOMAIN call.factors[1] : call.factors[1][idx] = call.prime
    /\ \E idx \in DOMAIN call.factors[1] : call.factors[1][idx] < 0
    /\ call.factors[2][0] = 0
    /\ call.x > call.prime
    /\ result # 0

\* an evaluation over a domain of two points, one of them above the prime.
C24_WitnessDomain ==
    /\ pc = "done"
    /\ call.fn = "poly_eval_domain"
    /\ ListLen(call.poly) = MaxPolyLen
    /\ ListLen(call.domain) = 2
    /\ call.domain[1] > call.prime
    /\ result[0] # result[1]

(***************************************************************************)
(* vect_add, vect_sub and vect_mul with their data.  An operand is a list  *)
(* of entries or a single entry; an entry is an int or a Scalar.  A C      *)
(* buffer records its capacity, the entries written and every index read   *)
(* or written.                                                             *)
(***************************************************************************)
\* "for (size_t i = 0; i < n; i++) bls_scalar_add(&out[i], &a[i], &b[i])"
bls_scalar_vec_add(a, b, n) == [idx \in 0..(n - 1) |-> bls_scalar_add(a[idx], b[idx])]

bls_scalar_vec_sub(a, b, n) == [idx \in 0..(n - 1) |-> bls_scalar_sub(a[idx], b[idx])]

bls_scalar_vec_mul(a, b, n) == [idx \in 0..(n - 1) |-> bls_scalar_mul_mont(a[idx], b[idx])]

\* "const bls_scalar_t scalar = *b; ... bls_scalar_mul_mont(&out[i], &a[i], &scalar)"
bls_scalar_vec_mul_scalar(a, scalar, n) ==
    [idx \in 0..(n - 1) |-> bls_scalar_mul_mont(a[idx], scalar)]

bls_scalar_vec_add_scalar(a, scalar, n) ==
    [idx \in 0..(n - 1) |-> bls_scalar_add(a[idx], scalar)]

bls_scalar_vec_sub_scalar(a, scalar, n) ==
    [idx \in 0..(n - 1) |-> bls_scalar_sub(a[idx], scalar)]

\* A variant of the loop of the scalar - vector branch that subtracts the scalar.
ScalarMinusVector_reflected(b, scalar, n) == bls_scalar_vec_sub_scalar(b, scalar, n)

\* "for i in range(n): bls_scalar_sub(&res_ptr[i], &scalar_b, &b_ptr[i])"
ScalarMinusVector(b, scalar, n) ==
    [idx \in 0..(n - 1) |-> bls_scalar_sub(scalar, b[idx])]

\* "a_ptr[i] = val_a.val if isinstance(val_a, Scalar) else Scalar(val_a).val"
Unbox(items, n) == [idx \in 0..(n - 1) |-> AsScalar(items[idx])]

\* The branch of vect_* taken; vect_add and vect_mul call themselves with the
\* arguments exchanged for a scalar and a list.
VectBranch(fn, a, b) ==
    IF a.list /\ b.list THEN "lists"
    ELSE IF a.list THEN "list_scalar"
    ELSE IF HasStackBuffers(fn) THEN "list_scalar" ELSE "scalar_list"

\* The list operand whose length is n, and the other operand.
VectList(fn, a, b) == IF a.list THEN a ELSE b

VectOther(fn, a, b) == IF a.list THEN b ELSE a

\* "if n <= 256: a_ptr = stack_a ... else: a_ptr = malloc(n * sizeof(bls_scalar_t))"
NewBuffer(fn, n) ==
    IF HasStackBuffers(fn) /\ n <= StackLimit
    THEN [kind |-> "stack", cap |-> StackLimit, data |-> <<>>, touched |-> {}]
    ELSE [kind |-> "heap", cap |-> n, data |-> <<>>, touched |-> {}]

\* The buffer after the entries 0..n-1 were written, or read.
Written(buf, data, n) == [buf EXCEPT !.data = data, !.touched = @ \cup 0..(n - 1)]

ReadAll(buf, n) == [buf EXCEPT !.touched = @ \cup 0..(n - 1)]

\* The C batch function of a branch, on the entries of the buffers.
VectBatchResult(fn, branch, bufs, n) ==
    IF branch = "lists"
    THEN IF fn = "vect_add" THEN bls_scalar_vec_add(bufs.a_ptr.data, bufs.b_ptr.data, n)
         ELSE IF fn = "vect_sub" THEN bls_scalar_vec_sub(bufs.a_ptr.data, bufs.b_ptr.data, n)
         ELSE bls_scalar_vec_mul(bufs.a_ptr.data, bufs.b_ptr.data, n)
    ELSE IF branch = "list_scalar"
    THEN IF fn = "vect_add" THEN bls_scalar_vec_add_scalar(bufs.a_ptr.data, bufs.scalar_b, n)
         ELSE IF fn = "vect_sub" THEN bls_scalar_vec_sub_scalar(bufs.a_ptr.data, bufs.scalar_b, n)
         ELSE bls_scalar_vec_mul_scalar(bufs.a_ptr.data, bufs.scalar_b, n)
    ELSE ScalarMinusVector(bufs.b_ptr.data, bufs.scalar_b, n)

\* Entries of the lists: ints below 0, in range and above the modulus, and
\* Scalars at every third index.
PatternEntry(mul, off, idx) ==
    IF idx % 3 = 2 THEN [kind |-> "Scalar", val |-> Scalar_int((mul * idx) + off)]
    ELSE [kind |-> "int", v |-> (mul * idx) + off]

PatternList(mul, off, n) ==
    [list |-> TRUE, items |-> [idx \in 0..(n - 1) |-> PatternEntry(mul, off, idx)]]

VectDataLens == {0, 1, 3, StackLimit, StackLimit + 1}

ListOperands(n) == { PatternList(mul, off, n) : mul \in {1, 50}, off \in {-1, CinitModulus - 2} }

ListOperandsB(n) == { PatternList(mul, off, n) : mul \in {3}, off \in {0, CinitModulus + 1} }

SingleOperands ==
    { [list |-> FALSE, item |-> e] :
        e \in { [kind |-> "int", v |-> v] : v \in {-1, 0, 1, CinitModulus + 3} }
                \cup { [kind |-> "Scalar", val |-> Scalar_int(5)] } }

OperandPairs ==
    UNION { (ListOperands(n) \X ListOperandsB(n))
              \cup (ListOperands(n) \X SingleOperands)
              \cup (SingleOperands \X ListOperands(n)) : n \in VectDataLens }

\* vect_*(a, b, prime) up to the C batch function: the branch, the buffers and
\* the unboxing of the operands.
VectUnbox ==
    /\ pc = "idle"
    /\ \E fn \in {"vect_add", "vect_sub", "vect_mul"} : \E ab \in OperandPairs :
         LET a == ab[1]
             b == ab[2]
             branch == VectBranch(fn, a, b)
             lst == VectList(fn, a, b)
             n == ListLen(lst.items)
         IN  /\ call' = [fn |-> fn, a |-> a, b |-> b, branch |-> branch, n |-> n]
             /\ args' = [a |-> a, b |-> b]
             /\ buffers' =
                  IF branch = "lists"
                  THEN [a_ptr |-> Written(NewBuffer(fn, n), Unbox(a.items, n), n),
                        b_ptr |-> Written(NewBuffer(fn, n), Unbox(b.items, n), n),
                        res_ptr |-> NewBuffer(fn, n),
                        scalar_b |-> <<0, 0, 0, 0>>]
                  ELSE IF branch = "list_scalar"
                  THEN [a_ptr |-> Written(NewBuffer(fn, n), Unbox(lst.items, n), n),
                        b_ptr |-> NoBuffer,
                        res_ptr |-> NewBuffer(fn, n),
                        scalar_b |-> AsScalar(VectOther(fn, a, b).item)]
                  ELSE [a_ptr |-> NoBuffer,
                        b_ptr |-> Written(NewBuffer(fn, n), Unbox(b.items, n), n),
                        res_ptr |-> NewBuffer(fn, n),
                        scalar_b |-> AsScalar(a.item)]
    /\ pc' = "unboxed"
    /\ result' = <<>>
    /\ UNCHANGED notVectData

\* The C batch function (the loop of bls_scalar_sub in the scalar - vector branch).
VectBatch ==
    /\ pc = "unboxed"
    /\ buffers' = [a_ptr |-> IF call.branch = "scalar_list" THEN buffers.a_ptr
                             ELSE ReadAll(buffers.a_ptr, call.n),
                   b_ptr |-> IF call.branch = "list_scalar" THEN buffers.b_ptr
                             ELSE ReadAll(buffers.b_ptr, call.n),
                   res_ptr |-> Written(buffers.res_ptr,
                                       VectBatchResult(call.fn, call.branch, buffers, call.n),
                                       call.n),
                   scalar_b |-> buffers.scalar_b]
    /\ pc' = "computed"
    /\ UNCHANGED <<call, result, args>>
    /\ UNCHANGED notVectData

\* "res_list = [None] * n; for i in range(n): s_res.val = res_ptr[i]; res_list[i] = s_res"
VectBox ==
    /\ pc = "computed"
    /\ result' = [idx \in 0..(call.n - 1) |-> buffers.res_ptr.data[idx]]
    /\ buffers' = [buffers EXCEPT !.res_ptr = ReadAll(@, call.n)]
    /\ pc' = "done"
    /\ UNCHANGED <<call, args>>
    /\ UNCHANGED notVectData

InitVect == NoCall /\ CurveIdle /\ ScalarIdle /\ FieldIdle /\ NttIdle /\ PolyIdle /\ MemIdle /\ CiosIdle /\ ListIdle /\ BufIdle /\ SqrtIdle

NextVect ==
    \/ VectUnbox
    \/ VectBatch
    \/ VectBox

SpecVect == InitVect /\ [][NextVect]_vars

\* The integer an entry stands for.
EntryInt(e) == IF e.kind = "Scalar" THEN to_int(e.val) ELSE e.v

\* The operand of index idx: the entry of a list, the single entry otherwise.
OperandAt(operand, idx) ==
    IF operand.list THEN EntryInt(operand.items[idx]) ELSE EntryInt(operand.item)

ElementWise(fn, x, y) ==
    IF fn = "vect_add" THEN (x + y) % Modulus
    ELSE IF fn = "vect_sub" THEN (x - y) % Modulus
    ELSE (x * y) % Modulus

BufferNames == {"a_ptr", "b_ptr", "res_ptr"}

\* C25: vect_add, vect_sub and vect_mul return the list of the element-wise
\* results mod P for two lists of length n, and broadcast a single operand
\* (list - s, s - list, and s on the right for add and mul); the results are
\* those for n <= 256 (stack buffers) and for n > 256 (heap buffers) alike; no
\* index >= n, and no index >= 256 of a stack buffer, is read or written.
C25_VectorOperations ==
    /\ (pc = "done" /\ call.fn \in {"vect_add", "vect_sub", "vect_mul"}) =>
         /\ DOMAIN result = 0..(call.n - 1)
         /\ \A idx \in 0..(call.n - 1) :
              to_int(result[idx])
                = ElementWise(call.fn, OperandAt(call.a, idx), OperandAt(call.b, idx))
         /\ args.a = call.a
         /\ args.b = call.b
    /\ (pc \in {"unboxed", "computed", "done"}
          /\ call.fn \in {"vect_add", "vect_sub", "vect_mul"}) =>
         \A name \in BufferNames :
            /\ buffers[name].touched \subseteq 0..(call.n - 1)
            /\ buffers[name].touched \subseteq 0..(buffers[name].cap - 1)
            /\ (buffers[name].kind = "stack") => buffers[name].cap = StackLimit
            /\ (buffers[name].kind = "stack") <=>
                 (buffers[name].kind # "none" /\ HasStackBuffers(call.fn)
                    /\ call.n <= StackLimit)

\* C25 witnesses: a scalar minus a list of 257 entries, in heap buffers;
C25_Witness ==
    /\ pc = "done"
    /\ call.fn = "vect_sub"
    /\ call.branch = "scalar_list"
    /\ call.n = StackLimit + 1
    /\ buffers.res_ptr.kind = "heap"
    /\ buffers.res_ptr.touched = 0..StackLimit
    /\ to_int(result[StackLimit]) # to_int(result[0])
    /\ EntryInt(call.a.item) # 0

\* a product of two lists of 256 entries in stack buffers, every index used;
C25_WitnessStack ==
    /\ pc = "done"
    /\ call.fn = "vect_mul"
    /\ call.branch = "lists"
    /\ call.n = StackLimit
    /\ buffers.a_ptr.kind = "stack"
    /\ buffers.b_ptr.touched = 0..(StackLimit - 1)
    /\ to_int(result[StackLimit - 1]) # 0

\* a scalar plus a list, exchanged into the branch of a list and a scalar.
C25_WitnessExchanged ==
    /\ pc = "done"
    /\ call.fn = "vect_add"
    /\ ~call.a.list
    /\ call.branch = "list_scalar"
    /\ call.n = 3
    /\ buffers.a_ptr.kind = "stack"
    /\ buffers.b_ptr.kind = "none"
    /\ EntryInt(call.a.item) > Modulus

(***************************************************************************)
(* Scalar.__eq__ and the stored representation.                            *)
(***************************************************************************)
\* The pairs <<v, Scalar(v)>> of the constructor for the integers of [0, P).
Representations == {<<v, Scalar_int(v)>> : v \in 0..(Modulus - 1)}

\* int() of the constructor's Scalar for v is v, for every v of [0, P).
ConstructorRoundTrip == \A rep \in Representations : to_int(rep[2]) = rep[1]

\* A Scalar a of integer n equals the constructor's Scalar for v exactly when
\* n = v.
EqualIffSameInt(a, n) ==
    /\ n \in 0..(Modulus - 1)
    /\ \A rep \in Representations : Scalar_eq(a, rep[2]) <=> (n = rep[1])

\* C26: for Scalars produced by the constructor and the arithmetic operators,
\* a == b (limb by limb on the stored Montgomery forms) holds if and only if
\* int(a) == int(b): the Scalar held equals the constructor's Scalar for v
\* exactly when its integer is v, for every v in [0, P), and int() of the
\* constructor's Scalar for v is v.
C26_OneRepresentation ==
    /\ ConstructorRoundTrip
    /\ EqualIffSameInt(val, to_int(val))

\* C26 witness: a difference of two results of earlier operations that is 0,
\* stored as the constructor stores 0.
C26_Witness ==
    /\ last.op = "sub"
    /\ last.L.kind = "val"
    /\ last.R.kind = "val"
    /\ Scalar_eq(val, Scalar_int(0))
    /\ to_int(val) = 0

\* C26 witness: a product of results of earlier operations equal to a Scalar
\* of the constructor other than 0 and 1.
C26_WitnessProduct ==
    /\ last.op = "mul"
    /\ last.L.kind = "val"
    /\ to_int(val) > 1
    /\ Scalar_eq(val, Scalar_int(to_int(val)))
    /\ ~Scalar_eq(val, Scalar_int(1))

(***************************************************************************)
(* vect_add_inplace, and the length check of vect_add, vect_sub, vect_mul. *)
(***************************************************************************)
\* "if val_a >= prime: val_a = val_a % prime"
ReduceIfAbove(v, prime) == IF v >= prime THEN v % prime ELSE v

\* "result = val_a + val_b; if result >= prime: result -= prime"
AddInplaceEntry(val_a, val_b, prime) ==
    IF ReduceIfAbove(val_a, prime) + ReduceIfAbove(val_b, prime) >= prime
    THEN (ReduceIfAbove(val_a, prime) + ReduceIfAbove(val_b, prime)) - prime
    ELSE ReduceIfAbove(val_a, prime) + ReduceIfAbove(val_b, prime)

\* Python ints below 0, in [0, p) and above p.
InplaceValues(p) == {-1, 0, p - 1, p, (2 * p) + 1}

InplaceLens == {0, 1, 2}

InplaceLists(p) == UNION { [0..(n - 1) -> InplaceValues(p)] : n \in InplaceLens }

\* vect_add_inplace(a, b, prime) up to its loop: "if m != n: raise ValueError".
CallVectAddInplace ==
    /\ pc = "idle"
    /\ \E p \in PolyPrimes : \E a \in InplaceLists(p), b \in InplaceLists(p) :
         /\ call' = [fn |-> "vect_add_inplace", a |-> a, b |-> b, prime |-> p,
                     n |-> ListLen(a), m |-> ListLen(b), i |-> 0]
         /\ args' = [a |-> a, b |-> b]
         /\ IF ListLen(b) # ListLen(a)
            THEN pc' = "raised" /\ result' = "ValueError"
            ELSE pc' = "loop" /\ result' = <<>>
    /\ UNCHANGED notList

\* One iteration of "for i in range(n)": a[i] = result.
AddInplaceStep ==
    /\ pc = "loop"
    /\ call.i < call.n
    /\ args' = [args EXCEPT !.a[call.i] =
                   AddInplaceEntry(args.a[call.i], args.b[call.i], call.prime)]
    /\ call' = [call EXCEPT !.i = @ + 1]
    /\ UNCHANGED <<pc, result>>
    /\ UNCHANGED notList

\* "return a": the list object that was passed.
AddInplaceReturn ==
    /\ pc = "loop"
    /\ call.i = call.n
    /\ pc' = "done"
    /\ result' = "a"
    /\ UNCHANGED <<call, args>>
    /\ UNCHANGED notList

\* The next call: the lists of the last one are dropped, the heap is kept.
NextListCall ==
    /\ pc \in {"done", "raised"}
    /\ heap.next <= MaxAllocs
    /\ pc' = "idle"
    /\ call' = [fn |-> "none"]
    /\ result' = <<>>
    /\ args' = <<>>
    /\ mem' = [mem EXCEPT !.use_heap = 0, !.m = 2]
    /\ heap' = heap
    /\ UNCHANGED <<curveVars, scalarVars, fieldVars, nttVars, polyVars, ciosVars, bufVars, sqrtVars>>

InitInplace == NoCall /\ CurveIdle /\ ScalarIdle /\ FieldIdle /\ NttIdle /\ PolyIdle /\ MemIdle /\ CiosIdle /\ ListIdle /\ BufIdle /\ SqrtIdle

NextInplace ==
    \/ CallVectAddInplace
    \/ AddInplaceStep
    \/ AddInplaceReturn
    \/ CallVect
    \/ VectTry
    \/ NextListCall

SpecInplace == InitInplace /\ [][NextInplace]_vars

\* vect_add_inplace raises on different lengths with a and b as they were
\* passed, and never changes b.
InplaceLengthCheck ==
    call.fn = "vect_add_inplace" =>
      /\ args.b = call.b
      /\ (call.n # call.m) <=> (pc = "raised")
      /\ pc = "raised" => (result = "ValueError" /\ args.a = call.a)
      /\ pc = "done" => (result = "a" /\ DOMAIN args.a = DOMAIN call.a)

\* After vect_add_inplace has returned, a[i] is (a[i] + b[i]) mod p for the
\* entries of the given set of indexes.
InplaceSums(indexes) ==
    (call.fn = "vect_add_inplace" /\ pc = "done") =>
      \A idx \in indexes :
        args.a[idx] = (call.a[idx] + call.b[idx]) % call.prime

\* vect_add, vect_sub and vect_mul raise ValueError on two lists of different
\* lengths.
VectLengthCheck ==
    (/\ call.fn \in {"vect_add", "vect_sub", "vect_mul"}
     /\ call.a_list /\ call.b_list
     /\ call.len_b # call.n) => (pc = "raised" /\ result = "ValueError")

\* A step that raises ValueError allocates nothing and sets no pointer.
RaisesBeforeAllocating ==
    (pc = "idle" /\ pc' = "raised" /\ result' = "ValueError") =>
      (heap' = heap /\ mem' = mem /\ buffers' = buffers)

\* The indexes of the call's list a whose entries, in a and in b, are not
\* negative.
NonNegativeIndexes ==
    { idx \in DOMAIN call.a : call.a[idx] >= 0 /\ call.b[idx] >= 0 }

\* The length checks hold, and the sums are reduced for entries that are not
\* negative.
InplaceOnNonNegative ==
    /\ [](InplaceLengthCheck /\ VectLengthCheck /\ InplaceSums(NonNegativeIndexes))
    /\ [][RaisesBeforeAllocating]_vars

\* C27: vect_add_inplace(a, b, p) raises ValueError when len(a) # len(b),
\* before modifying any element of a; when the lengths match it overwrites
\* a[i] with (a[i] + b[i]) mod p for every i, returns the list a and never
\* modifies b; vect_add, vect_sub and vect_mul raise ValueError on two lists
\* of different lengths before allocating any buffer.
C27_InplaceAddition ==
    /\ [](InplaceLengthCheck /\ VectLengthCheck /\ InplaceSums(DOMAIN call.a))
    /\ [][RaisesBeforeAllocating]_vars

\* C27 witness: vect_add_inplace has returned a list with an entry that is
\* not the sum mod p: an entry below 0 was added.
C27_NegativeEntry ==
    /\ call.fn = "vect_add_inplace"
    /\ pc = "done"
    /\ \E idx \in DOMAIN call.a :
         /\ call.a[idx] < 0
         /\ args.a[idx] # (call.a[idx] + call.b[idx]) % call.prime

(***************************************************************************)
(* The indexes ntt_in_place reads and writes.                              *)
(***************************************************************************)
\* "k = 0; while k < n: ...; k += m" (for (k = 0; k < n; k += m)): the values of k.
BlockStarts(blk, n) == { k \in 0..(n - 1) : k % blk = 0 }

\* The butterflies of a stage: the pairs of k and j of "for j in range(half_m)".
StageButterflyIndexes(blk, n) == BlockStarts(blk, n) \X (0..((blk \div 2) - 1))

\* The indexes a butterfly uses: stage_twiddles[j], coeffs[k + j] and
\* coeffs[k + j + half_m].
ButterflyAccesses(kj, half_m) ==
    [stage_twiddles |-> kj[2], idx1 |-> kj[1] + kj[2], idx2 |-> kj[1] + kj[2] + half_m]

\* The list the butterflies work on: coeffs in the gmpy2 version, coeffs_c in
\* the native one.
StageList == IF call.impl = "gmpy2" THEN coeffs ELSE coeffs_c

\* Every index of the bit-reverse permutation is within bounds: rev[i] for
\* i in range(n) and coeffs[rev[i]].
PermutationInBounds ==
    \A idx \in 0..(call.n - 1) :
        /\ idx \in DOMAIN call.rev
        /\ call.rev[idx] \in DOMAIN call.input

\* Every index of the stage about to run is within bounds, and it has n/2
\* butterflies.
StageInBounds ==
    /\ ntt.stage \in DOMAIN call.twiddles
    /\ Cardinality(StageButterflyIndexes(ntt.m, call.n)) = call.n \div 2
    /\ \A kj \in StageButterflyIndexes(ntt.m, call.n) :
         /\ ButterflyAccesses(kj, ntt.m \div 2).stage_twiddles
              \in DOMAIN call.twiddles[ntt.stage]
         /\ ButterflyAccesses(kj, ntt.m \div 2).idx1 \in DOMAIN StageList
         /\ ButterflyAccesses(kj, ntt.m \div 2).idx2 \in DOMAIN StageList

\* The stages run with block sizes 2, 4, ..., n and there are log2(n) of
\* them; a list of one entry is returned as it was passed.
StagesInOrder ==
    /\ (call.fn = "ntt_in_place" /\ pc = "stages") =>
         /\ ntt.m = Pow2(ntt.stage + 1)
         /\ ntt.stage <= Log2(call.n)
         /\ PermutationInBounds
         /\ ntt.m <= call.n => StageInBounds
    /\ (call.fn = "ntt_in_place" /\ pc = "done" /\ call.n > 1) =>
         /\ ntt.stage = Log2(call.n)
         /\ ntt.m = 2 * call.n
         /\ DOMAIN coeffs = DOMAIN call.input
    /\ (call.fn = "ntt_in_place" /\ pc = "done" /\ call.n = 1) =>
         /\ ntt.stage = 0
         /\ coeffs = call.input

\* From the entry of a call to its end, twiddles and rev stay as passed, and
\* each stage is followed by the next one.
OnlyCoeffsModified ==
    (pc = "stages") =>
        /\ call'.twiddles = call.twiddles
        /\ call'.rev = call.rev
        /\ pc' = "stages" => ntt'.stage = ntt.stage + 1

\* C28: during ntt_in_place on a list of n = 2^k entries, with len(rev) = n
\* and log2(n) twiddle stages of sizes 1, 2, ..., n/2, every index read or
\* written (rev[i], coeffs[rev[i]], coeffs[k+j], coeffs[k+j+m/2],
\* twiddles[stage][j]) is within bounds; exactly log2(n) stages of n/2
\* butterflies run, with block sizes m = 2, 4, ..., n; only coeffs is
\* modified; for n = 1 the call returns with coeffs untouched.
C28_IndexesInBounds == []StagesInOrder /\ [][OnlyCoeffsModified]_vars

\* C28 witness: the last stage of the native version on the longest list is
\* about to run, with blocks of n entries.
C28_Witness ==
    /\ pc = "stages"
    /\ call.impl = "native"
    /\ call.n = Pow2(MaxLogN)
    /\ ntt.m = call.n
    /\ ntt.stage = MaxLogN - 1

\* C28 witness: a call on a list of one entry has returned.
C28_WitnessOne ==
    /\ pc = "done"
    /\ call.fn = "ntt_in_place"
    /\ call.n = 1
    /\ call.dir = "forward"

\* C28 witness: the gmpy2 version has run all stages of the longest list.
C28_WitnessDone ==
    /\ pc = "done"
    /\ call.fn = "ntt_in_place"
    /\ call.impl = "gmpy2"
    /\ call.n = Pow2(MaxLogN)
    /\ ntt.stage = MaxLogN

(***************************************************************************)
(* is_square and sqrt_mod on integers that are not reduced.                *)
(***************************************************************************)
\* The integers x >= 0 given to is_square and sqrt_mod: up to two multiples
\* of p and one more.
UnreducedInputs(p) == 0..((2 * p) + 1)

CallIsSquareAny ==
    /\ pc = "idle"
    /\ \E p \in Primes :
         \E x \in UnreducedInputs(p) :
           /\ call' = [fn |-> "is_square", x |-> x, p |-> p]
           /\ result' = is_square(x, p, _prime_cache).ret
           /\ _prime_cache' = is_square(x, p, _prime_cache).cache
    /\ pc' = "done"
    /\ UNCHANGED notField

CallSqrtModAny ==
    /\ pc = "idle"
    /\ \E p \in Primes :
         \E x \in UnreducedInputs(p) :
           /\ call' = [fn |-> "sqrt_mod", x |-> x, p |-> p]
           /\ result' = sqrt_mod(x, p, _prime_cache).ret
           /\ _prime_cache' = sqrt_mod(x, p, _prime_cache).cache
    /\ pc' = "done"
    /\ UNCHANGED notField

InitFieldAny == NoCall /\ CurveIdle /\ ScalarIdle /\ FieldIdle /\ NttIdle /\ PolyIdle /\ MemIdle /\ CiosIdle /\ ListIdle /\ BufIdle /\ SqrtIdle

NextFieldAny ==
    \/ CallIsSquareAny
    \/ CallSqrtModAny

SpecFieldAny == InitFieldAny /\ [][NextFieldAny]_vars

\* What a call on x returned is what the claim states for x mod p: is_square
\* as on x mod p, sqrt_mod a root of x mod p or None.
AsOnResidue ==
    /\ Returned("is_square") =>
          (result <=> is_square(call.x % call.p, call.p, <<>>).ret)
    /\ Returned("sqrt_mod") =>
          IF (call.x % call.p) = 0 \/ IsResidue(call.x % call.p, call.p)
          THEN result.some /\ (result.v * result.v) % call.p = call.x % call.p
          ELSE result = None

\* The same for every x that is not a non-zero multiple of p.
AsOnResidueUnlessMultiple ==
    (call.fn \in {"is_square", "sqrt_mod"} /\ ~(call.x # 0 /\ call.x % call.p = 0))
        => AsOnResidue

\* C30: is_square(x, p) and sqrt_mod(x, p) depend only on x mod p: for every
\* x >= 0, is_square(x, p) = is_square(x mod p, p) and sqrt_mod(x, p) is a
\* root of x mod p or None accordingly; a non-zero multiple of p is treated
\* like 0 (a square with root 0).
C30_DependsOnResidue == AsOnResidue

\* C30 witness: is_square(p, p) has returned False, while is_square(0, p) is
\* True.
C30_MultipleOfP ==
    /\ Returned("is_square")
    /\ call.x = call.p
    /\ result = FALSE
    /\ is_square(0, call.p, <<>>).ret

\* sqrt_mod(2p, p) has returned None.
C30_MultipleOfPSqrt ==
    /\ Returned("sqrt_mod")
    /\ call.x = 2 * call.p
    /\ result = None

(***************************************************************************)
(* sqrt_mod as a process: the search for a non-residue, the "while True"   *)
(* loop and its inner search, one iteration per step.  The two searches    *)
(* have no bound in the code; here a search stops, without returning, once *)
(* its counter has passed p.                                               *)
(***************************************************************************)
\* A variant of the update that multiplies t by b, not by c = b^2.
UpdatedLocals_tTimesB(loc, b, p) ==
    [loc EXCEPT !.M = loc.i,
                !.c = (b * b) % p,
                !.t = (loc.t * b) % p,
                !.R = (loc.R * b) % p]

\* "M = i; c = (b * b) % p; t = (t * c) % p; R = (R * b) % p"
UpdatedLocals(loc, b, p) ==
    [loc EXCEPT !.M = loc.i,
                !.c = (b * b) % p,
                !.t = (loc.t * ((b * b) % p)) % p,
                !.R = (loc.R * b) % p]

\* sqrt_mod(x, p) up to "z = 2": the returns for x = 0, for a non-residue and
\* for p = 3 (mod 4), and the factoring of p - 1.
SqrtEnter ==
    /\ pc = "idle"
    /\ \E p \in Primes : \E x \in 0..(p - 1) :
         /\ call' = [fn |-> "sqrt_mod", x |-> x, p |-> p]
         /\ IF x = 0 \/ _powmod(x, (p - 1) \div 2, p) # 1 \/ p % 4 = 3
            THEN /\ pc' = "done"
                 /\ result' = sqrt_mod(x, p, _prime_cache).ret
                 /\ tonelli' = tonelli
            ELSE /\ pc' = "find_z"
                 /\ result' = <<>>
                 /\ tonelli' = [tonelli EXCEPT !.Q = FactorTwos(p - 1, 0).Q,
                                               !.S = FactorTwos(p - 1, 0).S,
                                               !.z = 2]
         /\ _prime_cache' = IF x = 0 THEN _prime_cache
                            ELSE _get_mpz_prime(p, _prime_cache).cache
    /\ UNCHANGED notSqrt

\* One test of "while is_square(z, p): z += 1", and after the loop
\* "M = S; c = powmod(z, Q); t = powmod(x, Q); R = powmod(x, (Q + 1) // 2)".
SqrtFindZ ==
    /\ pc = "find_z"
    /\ tonelli.z <= call.p
    /\ IF is_square(tonelli.z, call.p, _prime_cache).ret
       THEN /\ tonelli' = [tonelli EXCEPT !.z = @ + 1]
            /\ pc' = pc
       ELSE /\ tonelli' = [tonelli EXCEPT
                             !.M = tonelli.S,
                             !.c = _powmod(tonelli.z, tonelli.Q, call.p),
                             !.t = _powmod(call.x, tonelli.Q, call.p),
                             !.R = _powmod(call.x, (tonelli.Q + 1) \div 2, call.p)]
            /\ pc' = "outer"
    /\ _prime_cache' = is_square(tonelli.z, call.p, _prime_cache).cache
    /\ UNCHANGED <<call, result>>
    /\ UNCHANGED notSqrt

\* The head of "while True": the two returns, or "i = 1; temp = (t * t) % p".
SqrtOuter ==
    /\ pc = "outer"
    /\ IF tonelli.t = 0
       THEN pc' = "done" /\ result' = Some(0) /\ tonelli' = tonelli
       ELSE IF tonelli.t = 1
       THEN pc' = "done" /\ result' = Some(tonelli.R) /\ tonelli' = tonelli
       ELSE /\ pc' = "inner"
            /\ result' = result
            /\ tonelli' = [tonelli EXCEPT !.i = 1, !.temp = (tonelli.t * tonelli.t) % call.p]
    /\ UNCHANGED <<call, _prime_cache>>
    /\ UNCHANGED notSqrt

\* One iteration of "while temp != 1: temp = (temp * temp) % p; i += 1"
SqrtInner ==
    /\ pc = "inner"
    /\ tonelli.temp # 1
    /\ tonelli.i <= call.p
    /\ tonelli' = [tonelli EXCEPT !.temp = (@ * @) % call.p, !.i = @ + 1]
    /\ UNCHANGED <<pc, call, result, _prime_cache>>
    /\ UNCHANGED notSqrt

\* The update that ends an iteration of "while True".
SqrtUpdate ==
    /\ pc = "inner"
    /\ tonelli.temp = 1
    /\ tonelli' = UpdatedLocals(tonelli,
                                SquareTimes(tonelli.c, tonelli.M - tonelli.i - 1, call.p),
                                call.p)
    /\ pc' = "outer"
    /\ UNCHANGED <<call, result, _prime_cache>>
    /\ UNCHANGED notSqrt

InitSqrt == NoCall /\ CurveIdle /\ ScalarIdle /\ FieldIdle /\ NttIdle /\ PolyIdle /\ MemIdle /\ CiosIdle /\ ListIdle /\ BufIdle /\ SqrtIdle

NextSqrt ==
    \/ SqrtEnter
    \/ SqrtFindZ
    \/ SqrtOuter
    \/ SqrtInner
    \/ SqrtUpdate

\* The interpreter runs a call to its end: a step that can be taken is taken.
SpecSqrt == InitSqrt /\ [][NextSqrt]_vars /\ WF_vars(NextSqrt)

\* The search for z stays below p, and the inner search stays below M.
SearchesBounded ==
    /\ pc = "find_z" => tonelli.z \in 2..(call.p - 1)
    /\ pc = "inner" => tonelli.i \in 1..(tonelli.M - 1)
    /\ pc \in {"outer", "inner"} => tonelli.M \in 1..tonelli.S

\* M strictly decreases on every iteration of "while True".
MDecreases ==
    (pc = "inner" /\ pc' = "outer") => (tonelli'.M < tonelli.M /\ tonelli'.M = tonelli.i)

\* C29: for an odd prime p and 0 <= x < p, sqrt_mod(x, p) terminates: the
\* search for a non-residue z ends, each inner search for the least i with
\* t^(2^i) = 1 ends with i < M, and M strictly decreases on every outer
\* iteration until t = 1.
C29_SqrtTerminates ==
    /\ []SearchesBounded
    /\ [][MDecreases]_vars
    /\ (pc \in {"find_z", "outer", "inner"}) ~> (pc = "done" /\ tonelli.t = 1)

\* C29 witness: the loop is in its second iteration or later (M has
\* decreased) and the inner search has counted beyond 1.
C29_Witness ==
    /\ pc = "inner"
    /\ tonelli.M < tonelli.S
    /\ tonelli.i >= 2

\* C29 witness: a call has returned from the loop after the search for z went
\* beyond 2.
C29_WitnessReturned ==
    /\ pc = "done"
    /\ call.fn = "sqrt_mod"
    /\ tonelli.z > 2
    /\ tonelli.M < tonelli.S
    /\ tonelli.t = 1

====
